---- MODULE Spec2Model ----
(***************************************************************************)
(* Model of the shop-api coin/inventory workflows (SendCoin, BuyItem,      *)
(* Auth) running as concurrent requests against one PostgreSQL database.   *)
(* Every store call of a workflow is one atomic step; steps of different   *)
(* requests interleave freely.  Statements issued through *sql.DB are      *)
(* autocommitted, statements issued through *sql.Tx become visible at      *)
(* Commit (READ COMMITTED).                                                *)
(***************************************************************************)
EXTENDS Integers, Sequences, FiniteSets, TLC

(***************************************************************************)
(* Bounds of the model.                                                    *)
(***************************************************************************)
\* number of requests issued in one behaviour (all may be in flight at once)
MaxReqs == 2
\* number of store calls that may fail in one behaviour
MaxFailures == 1

Reqs == 1..MaxReqs

\* inputs the requests are drawn from
Usernames == {"alice", "bob", "ghost"}
Passwords == {"pw1", "pw2"}
Amounts == {0, 600}
ItemNames == {"", "pen", "pink-hoody", "nosuch"}

(***************************************************************************)
(* Program constants.                                                      *)
(***************************************************************************)
\* starting grant set by Auth on registration
InitialCoins == 1000

\* rows of the items table this model uses (seeded by the migration)
items == { [item_name |-> "pen", price |-> 10],
           [item_name |-> "pink-hoody", price |-> 500] }

\* error values returned by the workflows; "nil" is success
ErrNil == "nil"
ErrInvalidAmount == "ErrInvalidAmount"
ErrUserNotFound == "ErrUserNotFound"
ErrReceiverNotFound == "ErrReceiverNotFound"
ErrSelfTransfer == "ErrSelfTransfer"
ErrInsufficientFunds == "ErrInsufficientFunds"
ErrItemRequired == "ErrItemRequired"
ErrItemNotFound == "ErrItemNotFound"
ErrNotEnoughCoins == "ErrNotEnoughCoins"
ErrInvalidPassword == "ErrInvalidPassword"
\* any wrapped store error (fmt.Errorf("...: %w", err))
ErrStore == "ErrStore"
\* not an error value: the call did not return, a panic left it
ErrPanic == "panic"
\* the error of a statement issued under a cancelled context
ErrCanceled == "ErrCanceled"

(***************************************************************************)
(* State.                                                                  *)
(***************************************************************************)
VARIABLES
    users,              \* table users: sequence of rows, row i has id i (SERIAL)
    inventory,          \* table inventory: set of committed rows (ids dense)
    coin_transactions,  \* table coin_transactions: committed rows, insertion order
    clock,              \* time.Now(), a logical clock
    req,                \* per request: operation, inputs, locals, position, result
    snap,               \* per request: the committed tables when it was called
    alone,              \* per request: no other request changed the tables since
    failures            \* store calls that have failed so far

vars == <<users, inventory, coin_transactions, clock, req, snap, alone, failures>>

\* the signing secret the server was configured with, and another one
jwtSecret == "secret"
otherSecret == "other-secret"

\* token.SignedString(key): the claims under an HMAC of the method and the
\* claims with the key
SignedString(alg, claims, key) ==
    [alg |-> alg, claims |-> claims, sig |-> <<alg, claims, key>>]

\* the empty token string
NoToken == [alg |-> "", claims |-> {}, sig |-> <<>>]

\* GenerateJWTToken signing with a key that is not the server's secret
GenerateJWTToken_OtherSecret(username) ==
    SignedString("HS256", {<<"username", username>>}, otherSecret)

\* jwt.NewWithClaims(HS256, {username}).SignedString(jwtSecret)
GenerateJWTToken(username) ==
    SignedString("HS256", {<<"username", username>>}, jwtSecret)

\* the signing methods of type *jwt.SigningMethodHMAC
SigningMethodHMAC == {"HS256", "HS384", "HS512"}

\* jwt.Parse with the key function of VerifyJWTToken, then the username
\* claim: the username and whether an error is returned
VerifyJWTToken(tokenString) ==
    IF tokenString.alg \notin SigningMethodHMAC
    THEN [username |-> "", err |-> TRUE]
    ELSE IF tokenString.sig # <<tokenString.alg, tokenString.claims, jwtSecret>>
    THEN [username |-> "", err |-> TRUE]
    ELSE IF ~\E c \in tokenString.claims : c[1] = "username"
    THEN [username |-> "", err |-> TRUE]
    ELSE [username |-> (CHOOSE c \in tokenString.claims : c[1] = "username")[2],
          err |-> FALSE]

\* a nil *models.DBUser
\* the Authorization header: the text before the token and the token; the
\* header that is absent reads as the empty string
NoHeader == [scheme |-> "", token |-> NoToken]

\* the body a handler has written: nothing (RespondWithOK), a JSON payload
\* (RespondWithJSON) or models.ErrorResponse{Errors: message}
NoBody == [kind |-> "none", errors |-> ""]
JSONBody == [kind |-> "json", errors |-> ""]
ErrorBody(message) == [kind |-> "error", errors |-> message]

NilUser == [id |-> 0, username |-> "", password_hash |-> "", coins |-> 0]

\* a nil *models.InfoResponse
NilResponse == [isNil |-> TRUE, coins |-> 0, inventory |-> <<>>,
                received |-> <<>>, sent |-> <<>>]

\* a request slot before its call
IdleReq == [op |-> "none", pc |-> "idle",
            username |-> "", receiver |-> "", amount |-> 0, item |-> "",
            password |-> "",
            senderUser |-> NilUser, receiverUser |-> NilUser,
            user |-> NilUser, price |-> 0,
            existingQuantity |-> -1,
            tx |-> "none", txLedger |-> <<>>, txInv |-> {},
            inventoryDB |-> <<>>, rowsReceived |-> <<>>, rowsSent |-> <<>>,
            response |-> NilResponse,
            nBegin |-> 0, nWrites |-> 0, nFinal |-> 0, failed |-> FALSE,
            cancelled |-> FALSE,
            ret |-> "", token |-> NoToken,
            route |-> "", authHeader |-> NoHeader, ctxUsername |-> "",
            invoked |-> FALSE, decoded |-> FALSE,
            status |-> 0, body |-> NoBody]

\* bcrypt.GenerateFromPassword / CompareHashAndPassword (salt abstracted)
Hash(password) == "bcrypt:" \o password
\* CompareHashAndPassword accepting every password
CompareHashAndPassword_AlwaysMatch(hash, password) == TRUE
CompareHashAndPassword(hash, password) == hash = Hash(password)

\* the users table after alice and bob have each registered through Auth
RegisteredUsers ==
    << [id |-> 1, username |-> "alice", password_hash |-> Hash("pw1"), coins |-> InitialCoins],
       [id |-> 2, username |-> "bob", password_hash |-> Hash("pw1"), coins |-> InitialCoins] >>

\* the tables after alice, then, has sent 100 coins to bob through SendCoin
TransferredUsers ==
    << [id |-> 1, username |-> "alice", password_hash |-> Hash("pw1"), coins |-> InitialCoins - 100],
       [id |-> 2, username |-> "bob", password_hash |-> Hash("pw1"), coins |-> InitialCoins + 100] >>
TransferredLedger ==
    << [sender_user_id |-> 1, receiver_user_id |-> 2, amount |-> 100,
        transaction_date |-> 0] >>

\* the store when the server starts serving: empty after the migration, or
\* as earlier requests left it
InitialStores ==
    { [users |-> <<>>, coin_transactions |-> <<>>, clock |-> 0],
      [users |-> RegisteredUsers, coin_transactions |-> <<>>, clock |-> 0],
      [users |-> TransferredUsers, coin_transactions |-> TransferredLedger,
       clock |-> 1] }

Init ==
    /\ \E s \in InitialStores :
          /\ users = s.users
          /\ coin_transactions = s.coin_transactions
          /\ clock = s.clock
    /\ inventory = {}
    /\ req = [r \in Reqs |-> IdleReq]
    /\ snap = [r \in Reqs |-> [users |-> <<>>, inventory |-> {}, coin_transactions |-> <<>>]]
    /\ alone = [r \in Reqs |-> TRUE]
    /\ failures = 0

(***************************************************************************)
(* The store: the statements of the db package over the tables.            *)
(***************************************************************************)
\* a store call fails (connection lost, statement error) at most MaxFailures times
MayFail(fail) == fail => failures < MaxFailures

\* SELECT ... FROM users WHERE username = $1; nil when there is no row
GetUserByUsername(username) ==
    IF \E i \in DOMAIN users : users[i].username = username
    THEN users[CHOOSE i \in DOMAIN users : users[i].username = username]
    ELSE NilUser

\* UPDATE users SET coins = $1 WHERE id = $2 (issued on the *sql.DB: autocommit)
UpdateUserCoins(userID, coins) ==
    [i \in DOMAIN users |-> IF users[i].id = userID
                            THEN [users[i] EXCEPT !.coins = coins]
                            ELSE users[i]]

\* INSERT INTO users (username, password_hash, coins) VALUES ($1, $2, 0)
CreateUser(username, passwordHash) ==
    Append(users, [id |-> Len(users) + 1, username |-> username,
                   password_hash |-> passwordHash, coins |-> 0])

\* SetInitialCoins without its WHERE clause
SetInitialCoins_NoWhere(userID, initialCoins) ==
    [i \in DOMAIN users |-> [users[i] EXCEPT !.coins = initialCoins]]

\* UPDATE users SET coins = $1 WHERE id = $2
SetInitialCoins(userID, initialCoins) ==
    [i \in DOMAIN users |-> IF users[i].id = userID
                            THEN [users[i] EXCEPT !.coins = initialCoins]
                            ELSE users[i]]

\* SELECT price FROM items WHERE item_name = $1; 0 and an error when no row
HasItem(itemName) == \E it \in items : it.item_name = itemName
GetItemPrice(itemName) ==
    IF HasItem(itemName)
    THEN (CHOOSE it \in items : it.item_name = itemName).price
    ELSE 0

\* the row of the INSERT INTO coin_transactions of RecordTransaction
RecordTransaction(senderUserID, receiverUserID, amount) ==
    [sender_user_id |-> senderUserID, receiver_user_id |-> receiverUserID,
     amount |-> amount, transaction_date |-> clock]

\* SELECT quantity FROM inventory WHERE user_id = $1 AND item_type = $2,
\* -1 for sql.ErrNoRows
InventoryRows(userID, itemType) ==
    {row \in inventory : row.user_id = userID /\ row.item_type = itemType}
SelectQuantity(userID, itemType) ==
    IF InventoryRows(userID, itemType) = {}
    THEN -1
    ELSE (CHOOSE row \in InventoryRows(userID, itemType) : TRUE).quantity

\* an inventory table without the UNIQUE (user_id, item_type) index, whose
\* entries no transaction waits for
InventoryLocked_NoUniqueIndex(r, userID, itemType) == FALSE

\* an inventory key whose lock is never released
InventoryLocked_NeverReleased(r, userID, itemType) == TRUE

\* another open transaction holds an uncommitted write on the inventory key
InventoryLocked(r, userID, itemType) ==
    \E q \in Reqs \ {r} :
        /\ req[q].tx = "open"
        /\ \E w \in req[q].txInv : w.user_id = userID /\ w.item_type = itemType

\* what a transaction's inventory statement does to the table at Commit
ApplyInventory(w) ==
    IF w.kind = "insert"
    THEN inventory \cup {[id |-> Cardinality(inventory) + 1,
                          user_id |-> w.user_id, item_type |-> w.item_type,
                          quantity |-> w.quantity]}
    ELSE {IF row.user_id = w.user_id /\ row.item_type = w.item_type
          THEN [row EXCEPT !.quantity = w.quantity] ELSE row : row \in inventory}

(***************************************************************************)
(* Bookkeeping shared by the steps.                                        *)
(***************************************************************************)
InFlight(q) == req[q].op # "none" /\ req[q].pc # "done"

\* request r changed the committed tables: no other request that has been
\* called has the tables to itself since its call
Interfere(r) ==
    alone' = [q \in Reqs |-> IF q # r /\ req[q].op # "none" THEN FALSE
                                                              ELSE alone[q]]

\* requests are issued in the order of their numbers
CanCall(r) ==
    /\ req[r].pc = "idle"
    /\ IF r = 1 THEN TRUE ELSE req[r - 1].pc # "idle"

Called(r) ==
    /\ snap' = [snap EXCEPT ![r] = [users |-> users, inventory |-> inventory,
                                    coin_transactions |-> coin_transactions]]
    /\ alone' = [alone EXCEPT ![r] = TRUE]

\* the workflow returns err
Return(r, err) == [req[r] EXCEPT !.pc = "done", !.ret = err]

\* ReturnRollback leaving the transaction as it is
ReturnRollback_NoRollback(r, err) ==
    [req[r] EXCEPT !.pc = "done", !.ret = err]

\* the deferred function of SendCoin/BuyItem on the error path: Rollback
ReturnRollback(r, err) ==
    [req[r] EXCEPT !.pc = "done", !.ret = err, !.tx = "rolledback",
                   !.txLedger = <<>>, !.txInv = {}, !.nFinal = @ + 1]

(***************************************************************************)
(* SendCoin (usecase/transaction.go).                                      *)
(***************************************************************************)
\* SendCoinCheck without the comparison of the balance with the amount
SendCoinCheck_NoFundsCheck(senderUser, receiverUser, amount) ==
    IF receiverUser = NilUser THEN ErrReceiverNotFound
    ELSE IF senderUser.id = receiverUser.id THEN ErrSelfTransfer
    ELSE ErrNil

\* SendCoinCheck comparing the balance before comparing the two users
SendCoinCheck_FundsFirst(senderUser, receiverUser, amount) ==
    IF receiverUser = NilUser THEN ErrReceiverNotFound
    ELSE IF senderUser.coins < amount THEN ErrInsufficientFunds
    ELSE IF senderUser.id = receiverUser.id THEN ErrSelfTransfer
    ELSE ErrNil

\* SendCoinCheck letting a user send to itself
SendCoinCheck_NoSelfCheck(senderUser, receiverUser, amount) ==
    IF receiverUser = NilUser THEN ErrReceiverNotFound
    ELSE IF senderUser.coins < amount THEN ErrInsufficientFunds
    ELSE ErrNil

\* the checks made once both users have been read
SendCoinCheck(senderUser, receiverUser, amount) ==
    IF receiverUser = NilUser THEN ErrReceiverNotFound
    ELSE IF senderUser.id = receiverUser.id THEN ErrSelfTransfer
    ELSE IF senderUser.coins < amount THEN ErrInsufficientFunds
    ELSE ErrNil

\* the balances SendCoin writes, computed from the rows it read
SenderCoinsAfter(senderUser, amount) == senderUser.coins - amount
\* ReceiverCoinsAfter setting the balance to the amount
ReceiverCoinsAfter_Overwrite(receiverUser, amount) == amount
ReceiverCoinsAfter(receiverUser, amount) == receiverUser.coins + amount

\* SendCoin is called; a non-positive amount is rejected before any store call
SendCoinEnter(senderUsername, receiverUsername, amount) ==
    [IdleReq EXCEPT !.op = "SendCoin", !.username = senderUsername,
                    !.receiver = receiverUsername, !.amount = amount,
                    !.pc = IF amount <= 0 THEN "done" ELSE "getSender",
                    !.ret = IF amount <= 0 THEN ErrInvalidAmount ELSE ""]

SendCoinCall(r, senderUsername, receiverUsername, amount) ==
    /\ CanCall(r)
    /\ req' = [req EXCEPT ![r] =
                 SendCoinEnter(senderUsername, receiverUsername, amount)]
    /\ Called(r)
    /\ UNCHANGED <<users, inventory, coin_transactions, clock, failures>>

\* senderUser, err := GetUserByUsername(senderUsername)
SendCoinGetSender(r, fail) ==
    /\ req[r].op = "SendCoin" /\ req[r].pc = "getSender"
    /\ MayFail(fail)
    /\ LET u == GetUserByUsername(req[r].username) IN
       req' = [req EXCEPT ![r] =
                 IF fail THEN [Return(r, ErrStore) EXCEPT !.failed = TRUE]
                 ELSE IF u = NilUser THEN Return(r, ErrUserNotFound)
                 ELSE [req[r] EXCEPT !.senderUser = u, !.pc = "getReceiver"]]
    /\ failures' = IF fail THEN failures + 1 ELSE failures
    /\ UNCHANGED <<users, inventory, coin_transactions, clock, snap, alone>>

\* SendCoinGetReceiver issuing the sender's debit before the checks
SendCoinGetReceiver_DebitBeforeCheck(r, fail) ==
    /\ req[r].op = "SendCoin" /\ req[r].pc = "getReceiver"
    /\ MayFail(fail)
    /\ LET u == GetUserByUsername(req[r].receiver)
           e == SendCoinCheck(req[r].senderUser, u, req[r].amount) IN
       /\ req' = [req EXCEPT ![r] =
                    IF fail THEN [Return(r, ErrStore) EXCEPT !.failed = TRUE]
                    ELSE IF e # ErrNil
                    THEN [Return(r, e) EXCEPT !.nWrites = @ + 1]
                    ELSE [req[r] EXCEPT !.receiverUser = u, !.pc = "beginTx"]]
       /\ users' = IF ~fail /\ e # ErrNil
                   THEN UpdateUserCoins(req[r].senderUser.id,
                            SenderCoinsAfter(req[r].senderUser, req[r].amount))
                   ELSE users
    /\ failures' = IF fail THEN failures + 1 ELSE failures
    /\ UNCHANGED <<inventory, coin_transactions, clock, snap, alone>>

\* SendCoinGetReceiver crediting the receiver it found before the checks
SendCoinGetReceiver_CreditBeforeCheck(r, fail) ==
    /\ req[r].op = "SendCoin" /\ req[r].pc = "getReceiver"
    /\ MayFail(fail)
    /\ LET u == GetUserByUsername(req[r].receiver)
           e == SendCoinCheck(req[r].senderUser, u, req[r].amount) IN
       /\ req' = [req EXCEPT ![r] =
                    IF fail THEN [Return(r, ErrStore) EXCEPT !.failed = TRUE]
                    ELSE IF e # ErrNil THEN Return(r, e)
                    ELSE [req[r] EXCEPT !.receiverUser = u, !.pc = "beginTx"]]
       /\ users' = IF ~fail /\ e # ErrNil
                   THEN UpdateUserCoins(u.id, ReceiverCoinsAfter(u, req[r].amount))
                   ELSE users
    /\ failures' = IF fail THEN failures + 1 ELSE failures
    /\ UNCHANGED <<inventory, coin_transactions, clock, snap, alone>>

\* receiverUser, err := GetUserByUsername(receiverUsername), then the checks
SendCoinGetReceiver(r, fail) ==
    /\ req[r].op = "SendCoin" /\ req[r].pc = "getReceiver"
    /\ MayFail(fail)
    /\ LET u == GetUserByUsername(req[r].receiver)
           e == SendCoinCheck(req[r].senderUser, u, req[r].amount) IN
       req' = [req EXCEPT ![r] =
                 IF fail THEN [Return(r, ErrStore) EXCEPT !.failed = TRUE]
                 ELSE IF e # ErrNil THEN Return(r, e)
                 ELSE [req[r] EXCEPT !.receiverUser = u, !.pc = "beginTx"]]
    /\ failures' = IF fail THEN failures + 1 ELSE failures
    /\ UNCHANGED <<users, inventory, coin_transactions, clock, snap, alone>>

\* tx, err := GetDB().BeginTx(ctx, nil)
SendCoinBeginTx(r, fail) ==
    /\ req[r].op = "SendCoin" /\ req[r].pc = "beginTx"
    /\ MayFail(fail)
    /\ req' = [req EXCEPT ![r] =
                 IF fail THEN [Return(r, ErrStore) EXCEPT !.failed = TRUE,
                                                          !.nBegin = @ + 1]
                 ELSE [req[r] EXCEPT !.tx = "open", !.nBegin = @ + 1,
                                     !.pc = "debit"]]
    /\ failures' = IF fail THEN failures + 1 ELSE failures
    /\ UNCHANGED <<users, inventory, coin_transactions, clock, snap, alone>>

\* UpdateUserCoins(senderUser.ID, senderUser.Coins-amount)
SendCoinDebit(r, fail) ==
    /\ req[r].op = "SendCoin" /\ req[r].pc = "debit"
    /\ MayFail(fail)
    /\ IF fail
       THEN /\ req' = [req EXCEPT ![r] =
                         [ReturnRollback(r, ErrStore) EXCEPT !.failed = TRUE,
                                                             !.nWrites = @ + 1]]
            /\ UNCHANGED <<users, alone>>
       ELSE /\ users' = UpdateUserCoins(req[r].senderUser.id,
                            SenderCoinsAfter(req[r].senderUser, req[r].amount))
            /\ req' = [req EXCEPT ![r].pc = "credit", ![r].nWrites = @ + 1]
            /\ Interfere(r)
    /\ failures' = IF fail THEN failures + 1 ELSE failures
    /\ UNCHANGED <<inventory, coin_transactions, clock, snap>>

\* SendCoinCredit attempting the update again after it failed
SendCoinCredit_Retry(r, fail) ==
    /\ req[r].op = "SendCoin" /\ req[r].pc = "credit"
    /\ MayFail(fail)
    /\ IF fail
       THEN /\ req' = [req EXCEPT ![r].failed = TRUE, ![r].nWrites = @ + 1]
            /\ UNCHANGED <<users, alone>>
       ELSE /\ users' = UpdateUserCoins(req[r].receiverUser.id,
                            ReceiverCoinsAfter(req[r].receiverUser, req[r].amount))
            /\ req' = [req EXCEPT ![r].pc = "record", ![r].nWrites = @ + 1]
            /\ Interfere(r)
    /\ failures' = IF fail THEN failures + 1 ELSE failures
    /\ UNCHANGED <<inventory, coin_transactions, clock, snap>>

\* UpdateUserCoins(receiverUser.ID, receiverUser.Coins+amount)
SendCoinCredit(r, fail) ==
    /\ req[r].op = "SendCoin" /\ req[r].pc = "credit"
    /\ MayFail(fail)
    /\ IF fail
       THEN /\ req' = [req EXCEPT ![r] =
                         [ReturnRollback(r, ErrStore) EXCEPT !.failed = TRUE,
                                                             !.nWrites = @ + 1]]
            /\ UNCHANGED <<users, alone>>
       ELSE /\ users' = UpdateUserCoins(req[r].receiverUser.id,
                            ReceiverCoinsAfter(req[r].receiverUser, req[r].amount))
            /\ req' = [req EXCEPT ![r].pc = "record", ![r].nWrites = @ + 1]
            /\ Interfere(r)
    /\ failures' = IF fail THEN failures + 1 ELSE failures
    /\ UNCHANGED <<inventory, coin_transactions, clock, snap>>

\* RecordTransaction(senderUser.ID, receiverUser.ID, amount, tx)
SendCoinRecord(r, fail) ==
    /\ req[r].op = "SendCoin" /\ req[r].pc = "record"
    /\ MayFail(fail)
    /\ req' = [req EXCEPT ![r] =
                 IF fail
                 THEN [ReturnRollback(r, ErrStore) EXCEPT !.failed = TRUE,
                                                          !.nWrites = @ + 1]
                 ELSE [req[r] EXCEPT
                         !.txLedger = Append(@, RecordTransaction(
                             req[r].senderUser.id, req[r].receiverUser.id,
                             req[r].amount)),
                         !.nWrites = @ + 1, !.pc = "commit"]]
    /\ clock' = clock + 1
    /\ failures' = IF fail THEN failures + 1 ELSE failures
    /\ UNCHANGED <<users, inventory, coin_transactions, snap, alone>>

\* return nil, then the deferred err = tx.Commit(): the value already
\* returned is nil whether Commit succeeds or not
SendCoinCommit(r, fail) ==
    /\ req[r].op = "SendCoin" /\ req[r].pc = "commit"
    /\ MayFail(fail)
    /\ IF fail
       THEN /\ req' = [req EXCEPT ![r] =
                         [ReturnRollback(r, ErrNil) EXCEPT !.failed = TRUE]]
            /\ UNCHANGED <<coin_transactions, alone>>
       ELSE /\ coin_transactions' = coin_transactions \o req[r].txLedger
            /\ req' = [req EXCEPT ![r] =
                         [Return(r, ErrNil) EXCEPT !.tx = "committed",
                                                   !.nFinal = @ + 1]]
            /\ Interfere(r)
    /\ failures' = IF fail THEN failures + 1 ELSE failures
    /\ UNCHANGED <<users, inventory, clock, snap>>

\* a statement of SendCoin panics once the transaction is begun: the deferred
\* closure recovers, rolls the transaction back and panics again
SendCoinPanic(r) ==
    /\ req[r].op = "SendCoin" /\ req[r].pc \in {"debit", "credit", "record"}
    /\ MayFail(TRUE)
    /\ req' = [req EXCEPT ![r] =
                 [ReturnRollback(r, ErrPanic) EXCEPT !.failed = TRUE]]
    /\ failures' = failures + 1
    /\ UNCHANGED <<users, inventory, coin_transactions, clock, snap, alone>>

\* the context of the request is cancelled while the transaction of SendCoin
\* is open: database/sql rolls the transaction back, the statement the call
\* is at returns the context's error, and the deferred Rollback finds the
\* transaction finished; at the deferred Commit the value returned is nil
SendCoinCancel(r) ==
    /\ req[r].op = "SendCoin"
    /\ req[r].pc \in {"debit", "credit", "record", "commit"}
    /\ MayFail(TRUE)
    /\ req' = [req EXCEPT ![r] =
                 [ReturnRollback(r, IF req[r].pc = "commit" THEN ErrNil
                                                            ELSE ErrCanceled)
                    EXCEPT !.failed = TRUE, !.cancelled = TRUE]]
    /\ failures' = failures + 1
    /\ UNCHANGED <<users, inventory, coin_transactions, clock, snap, alone>>

(***************************************************************************)
(* BuyItem (usecase/item.go).                                              *)
(***************************************************************************)
\* BuyItemCheck comparing the balance before testing the user for nil
BuyItemCheck_FundsFirst(user, price) ==
    IF user.coins < price THEN ErrNotEnoughCoins
    ELSE IF user = NilUser THEN ErrUserNotFound
    ELSE ErrNil

\* the checks made once the user has been read
BuyItemCheck(user, price) ==
    IF user = NilUser THEN ErrUserNotFound
    ELSE IF user.coins < price THEN ErrNotEnoughCoins
    ELSE ErrNil

\* the balance BuyItem writes, computed from the row it read
BuyerCoinsAfter(user, price) == user.coins - price

\* InventoryWrite updating an existing row to the quantity bought
InventoryWrite_NoIncrement(userID, itemType, existingQuantity, quantity) ==
    IF existingQuantity >= 0
    THEN [kind |-> "update", user_id |-> userID, item_type |-> itemType,
          quantity |-> quantity]
    ELSE [kind |-> "insert", user_id |-> userID, item_type |-> itemType,
          quantity |-> quantity]

\* the statement UpdateUserInventory issues after its SELECT returned
\* existingQuantity (-1: sql.ErrNoRows)
InventoryWrite(userID, itemType, existingQuantity, quantity) ==
    IF existingQuantity >= 0
    THEN [kind |-> "update", user_id |-> userID, item_type |-> itemType,
          quantity |-> existingQuantity + quantity]
    ELSE [kind |-> "insert", user_id |-> userID, item_type |-> itemType,
          quantity |-> quantity]

\* BuyItem is called; an empty item name is rejected before any store call
BuyItemEnter(username, item) ==
    [IdleReq EXCEPT !.op = "BuyItem", !.username = username, !.item = item,
                    !.pc = IF item = "" THEN "done" ELSE "getPrice",
                    !.ret = IF item = "" THEN ErrItemRequired ELSE ""]

BuyItemCall(r, username, item) ==
    /\ CanCall(r)
    /\ req' = [req EXCEPT ![r] = BuyItemEnter(username, item)]
    /\ Called(r)
    /\ UNCHANGED <<users, inventory, coin_transactions, clock, failures>>

\* price, err := GetItemPrice(item); every error is answered ErrItemNotFound
BuyItemGetPrice(r, fail) ==
    /\ req[r].op = "BuyItem" /\ req[r].pc = "getPrice"
    /\ MayFail(fail)
    /\ req' = [req EXCEPT ![r] =
                 IF fail THEN [Return(r, ErrItemNotFound) EXCEPT !.failed = TRUE]
                 ELSE IF ~HasItem(req[r].item) THEN Return(r, ErrItemNotFound)
                 ELSE [req[r] EXCEPT !.price = GetItemPrice(req[r].item),
                                     !.pc = "getUser"]]
    /\ failures' = IF fail THEN failures + 1 ELSE failures
    /\ UNCHANGED <<users, inventory, coin_transactions, clock, snap, alone>>

\* BuyItemGetUser issuing the buyer's debit before the checks
BuyItemGetUser_DebitBeforeCheck(r, fail) ==
    /\ req[r].op = "BuyItem" /\ req[r].pc = "getUser"
    /\ MayFail(fail)
    /\ LET u == GetUserByUsername(req[r].username)
           e == BuyItemCheck(u, req[r].price) IN
       /\ req' = [req EXCEPT ![r] =
                    IF fail THEN [Return(r, ErrStore) EXCEPT !.failed = TRUE]
                    ELSE IF e # ErrNil
                    THEN [Return(r, e) EXCEPT !.nWrites = @ + 1]
                    ELSE [req[r] EXCEPT !.user = u, !.pc = "beginTx"]]
       /\ users' = IF ~fail /\ e # ErrNil
                   THEN UpdateUserCoins(u.id, BuyerCoinsAfter(u, req[r].price))
                   ELSE users
    /\ failures' = IF fail THEN failures + 1 ELSE failures
    /\ UNCHANGED <<inventory, coin_transactions, clock, snap, alone>>

\* user, err := GetUserByUsername(username), then the checks
BuyItemGetUser(r, fail) ==
    /\ req[r].op = "BuyItem" /\ req[r].pc = "getUser"
    /\ MayFail(fail)
    /\ LET u == GetUserByUsername(req[r].username)
           e == BuyItemCheck(u, req[r].price) IN
       req' = [req EXCEPT ![r] =
                 IF fail THEN [Return(r, ErrStore) EXCEPT !.failed = TRUE]
                 ELSE IF e # ErrNil THEN Return(r, e)
                 ELSE [req[r] EXCEPT !.user = u, !.pc = "beginTx"]]
    /\ failures' = IF fail THEN failures + 1 ELSE failures
    /\ UNCHANGED <<users, inventory, coin_transactions, clock, snap, alone>>

\* tx, err := GetDB().BeginTx(ctx, nil)
BuyItemBeginTx(r, fail) ==
    /\ req[r].op = "BuyItem" /\ req[r].pc = "beginTx"
    /\ MayFail(fail)
    /\ req' = [req EXCEPT ![r] =
                 IF fail THEN [Return(r, ErrStore) EXCEPT !.failed = TRUE,
                                                          !.nBegin = @ + 1]
                 ELSE [req[r] EXCEPT !.tx = "open", !.nBegin = @ + 1,
                                     !.pc = "debit"]]
    /\ failures' = IF fail THEN failures + 1 ELSE failures
    /\ UNCHANGED <<users, inventory, coin_transactions, clock, snap, alone>>

\* UpdateUserCoins(user.ID, user.Coins-price)
BuyItemDebit(r, fail) ==
    /\ req[r].op = "BuyItem" /\ req[r].pc = "debit"
    /\ MayFail(fail)
    /\ IF fail
       THEN /\ req' = [req EXCEPT ![r] =
                         [ReturnRollback(r, ErrStore) EXCEPT !.failed = TRUE,
                                                             !.nWrites = @ + 1]]
            /\ UNCHANGED <<users, alone>>
       ELSE /\ users' = UpdateUserCoins(req[r].user.id,
                            BuyerCoinsAfter(req[r].user, req[r].price))
            /\ req' = [req EXCEPT ![r].pc = "invSelect", ![r].nWrites = @ + 1]
            /\ Interfere(r)
    /\ failures' = IF fail THEN failures + 1 ELSE failures
    /\ UNCHANGED <<inventory, coin_transactions, clock, snap>>

\* UpdateUserInventory: tx.QueryRowContext(SELECT quantity ...).Scan
BuyItemInvSelect(r, fail) ==
    /\ req[r].op = "BuyItem" /\ req[r].pc = "invSelect"
    /\ MayFail(fail)
    /\ req' = [req EXCEPT ![r] =
                 IF fail THEN [ReturnRollback(r, ErrStore) EXCEPT !.failed = TRUE]
                 ELSE [req[r] EXCEPT
                         !.existingQuantity =
                             SelectQuantity(req[r].user.id, req[r].item),
                         !.pc = "invWrite"]]
    /\ failures' = IF fail THEN failures + 1 ELSE failures
    /\ UNCHANGED <<users, inventory, coin_transactions, clock, snap, alone>>

\* UpdateUserInventory: tx.ExecContext(UPDATE ... / INSERT ...).  The
\* statement waits while another transaction holds the key; an INSERT of a
\* key that is committed violates UNIQUE (user_id, item_type).
BuyItemInvWrite(r, fail) ==
    /\ req[r].op = "BuyItem" /\ req[r].pc = "invWrite"
    /\ MayFail(fail)
    /\ ~InventoryLocked(r, req[r].user.id, req[r].item)
    /\ LET w == InventoryWrite(req[r].user.id, req[r].item,
                               req[r].existingQuantity, 1)
           dup == w.kind = "insert"
                  /\ InventoryRows(req[r].user.id, req[r].item) # {} IN
       req' = [req EXCEPT ![r] =
                 IF fail
                 THEN [ReturnRollback(r, ErrStore) EXCEPT !.failed = TRUE,
                                                          !.nWrites = @ + 1]
                 ELSE IF dup
                 THEN [ReturnRollback(r, ErrStore) EXCEPT !.nWrites = @ + 1]
                 ELSE [req[r] EXCEPT !.txInv = {w}, !.nWrites = @ + 1,
                                     !.pc = "commit"]]
    /\ failures' = IF fail THEN failures + 1 ELSE failures
    /\ UNCHANGED <<users, inventory, coin_transactions, clock, snap, alone>>

\* return nil, then the deferred err = tx.Commit(): the value already
\* returned is nil whether Commit succeeds or not
BuyItemCommit(r, fail) ==
    /\ req[r].op = "BuyItem" /\ req[r].pc = "commit"
    /\ MayFail(fail)
    /\ IF fail
       THEN /\ req' = [req EXCEPT ![r] =
                         [ReturnRollback(r, ErrNil) EXCEPT !.failed = TRUE]]
            /\ UNCHANGED <<inventory, alone>>
       ELSE /\ inventory' = ApplyInventory(CHOOSE w \in req[r].txInv : TRUE)
            /\ req' = [req EXCEPT ![r] =
                         [Return(r, ErrNil) EXCEPT !.tx = "committed",
                                                   !.nFinal = @ + 1]]
            /\ Interfere(r)
    /\ failures' = IF fail THEN failures + 1 ELSE failures
    /\ UNCHANGED <<users, coin_transactions, clock, snap>>

\* BuyItemPanic without the recover branch of the deferred closure
BuyItemPanic_NoRecover(r) ==
    /\ req[r].op = "BuyItem" /\ req[r].pc \in {"debit", "invSelect", "invWrite"}
    /\ MayFail(TRUE)
    /\ req' = [req EXCEPT ![r] = [Return(r, ErrPanic) EXCEPT !.failed = TRUE]]
    /\ failures' = failures + 1
    /\ UNCHANGED <<users, inventory, coin_transactions, clock, snap, alone>>

\* a statement of BuyItem panics once the transaction is begun: the deferred
\* closure recovers, rolls the transaction back and panics again
BuyItemPanic(r) ==
    /\ req[r].op = "BuyItem" /\ req[r].pc \in {"debit", "invSelect", "invWrite"}
    /\ MayFail(TRUE)
    /\ req' = [req EXCEPT ![r] =
                 [ReturnRollback(r, ErrPanic) EXCEPT !.failed = TRUE]]
    /\ failures' = failures + 1
    /\ UNCHANGED <<users, inventory, coin_transactions, clock, snap, alone>>

\* the context of the request is cancelled while the transaction of BuyItem
\* is open, also while its inventory statement waits for another transaction
BuyItemCancel(r) ==
    /\ req[r].op = "BuyItem"
    /\ req[r].pc \in {"debit", "invSelect", "invWrite", "commit"}
    /\ MayFail(TRUE)
    /\ req' = [req EXCEPT ![r] =
                 [ReturnRollback(r, IF req[r].pc = "commit" THEN ErrNil
                                                            ELSE ErrCanceled)
                    EXCEPT !.failed = TRUE, !.cancelled = TRUE]]
    /\ failures' = failures + 1
    /\ UNCHANGED <<users, inventory, coin_transactions, clock, snap, alone>>

(***************************************************************************)
(* Auth (usecase/user.go).                                                 *)
(***************************************************************************)
\* Auth is called
AuthEnter(username, password) ==
    [IdleReq EXCEPT !.op = "Auth", !.username = username,
                    !.password = password, !.pc = "getUser"]

AuthCall(r, username, password) ==
    /\ CanCall(r)
    /\ req' = [req EXCEPT ![r] = AuthEnter(username, password)]
    /\ Called(r)
    /\ UNCHANGED <<users, inventory, coin_transactions, clock, failures>>

\* user, err := GetUserByUsername(username); a known user logs in
AuthGetUser(r, fail) ==
    /\ req[r].op = "Auth" /\ req[r].pc = "getUser"
    /\ MayFail(fail)
    /\ LET u == GetUserByUsername(req[r].username) IN
       req' = [req EXCEPT ![r] =
                 IF fail THEN [Return(r, ErrStore) EXCEPT !.failed = TRUE]
                 ELSE IF u = NilUser THEN [req[r] EXCEPT !.pc = "createUser"]
                 ELSE IF ~CompareHashAndPassword(u.password_hash, req[r].password)
                 THEN Return(r, ErrInvalidPassword)
                 ELSE [Return(r, ErrNil) EXCEPT
                         !.user = u,
                         !.token = GenerateJWTToken(req[r].username)]]
    /\ failures' = IF fail THEN failures + 1 ELSE failures
    /\ UNCHANGED <<users, inventory, coin_transactions, clock, snap, alone>>

\* CreateUser(username, hash); username is UNIQUE
AuthCreateUser(r, fail) ==
    /\ req[r].op = "Auth" /\ req[r].pc = "createUser"
    /\ MayFail(fail)
    /\ LET dup == GetUserByUsername(req[r].username) # NilUser IN
       IF fail \/ dup
       THEN /\ req' = [req EXCEPT ![r] =
                         [Return(r, ErrStore) EXCEPT !.failed = fail,
                                                     !.nWrites = @ + 1]]
            /\ UNCHANGED <<users, alone>>
       ELSE /\ users' = CreateUser(req[r].username, Hash(req[r].password))
            /\ req' = [req EXCEPT ![r].pc = "getUserAgain", ![r].nWrites = @ + 1]
            /\ Interfere(r)
    /\ failures' = IF fail THEN failures + 1 ELSE failures
    /\ UNCHANGED <<inventory, coin_transactions, clock, snap>>

\* user, err = GetUserByUsername(username) after the insert
AuthGetUserAgain(r, fail) ==
    /\ req[r].op = "Auth" /\ req[r].pc = "getUserAgain"
    /\ MayFail(fail)
    /\ req' = [req EXCEPT ![r] =
                 IF fail THEN [Return(r, ErrStore) EXCEPT !.failed = TRUE]
                 ELSE [req[r] EXCEPT !.user = GetUserByUsername(req[r].username),
                                     !.pc = "setInitialCoins"]]
    /\ failures' = IF fail THEN failures + 1 ELSE failures
    /\ UNCHANGED <<users, inventory, coin_transactions, clock, snap, alone>>

\* SetInitialCoins(user.ID, 1000), then the token
AuthSetInitialCoins(r, fail) ==
    /\ req[r].op = "Auth" /\ req[r].pc = "setInitialCoins"
    /\ MayFail(fail)
    /\ IF fail
       THEN /\ req' = [req EXCEPT ![r] =
                         [Return(r, ErrStore) EXCEPT !.failed = TRUE,
                                                     !.nWrites = @ + 1]]
            /\ UNCHANGED <<users, alone>>
       ELSE /\ users' = SetInitialCoins(req[r].user.id, InitialCoins)
            /\ req' = [req EXCEPT ![r] =
                         [Return(r, ErrNil) EXCEPT
                            !.nWrites = @ + 1,
                            !.token = GenerateJWTToken(req[r].username)]]
            /\ Interfere(r)
    /\ failures' = IF fail THEN failures + 1 ELSE failures
    /\ UNCHANGED <<inventory, coin_transactions, clock, snap>>

(***************************************************************************)
(* GetUserInfo (usecase/user.go) and its queries (db package).             *)
(***************************************************************************)
\* the sequences that list every element of a finite set once: the orders in
\* which a query may return a set of rows
Orderings(S) ==
    {f \in [1..Cardinality(S) -> S] :
        \A i, j \in 1..Cardinality(S) : i # j => f[i] # f[j]}

\* GetUserInventory without its WHERE clause
GetUserInventory_NoWhere(userID) == inventory

\* SELECT id, user_id, item_type, quantity FROM inventory WHERE user_id = $1
GetUserInventory(userID) == {row \in inventory : row.user_id = userID}

\* the loop of GetUserInfo over inventoryDB
ToInventory(inventoryDB) ==
    [i \in DOMAIN inventoryDB |-> [type |-> inventoryDB[i].item_type,
                                   quantity |-> inventoryDB[i].quantity]]

\* a sequence of ledger rows (each named by its position in the ledger)
\* sorted oldest first
ByDateDesc_Ascending(rows) ==
    \A i, j \in DOMAIN rows :
        i < j => coin_transactions[rows[i]].transaction_date
                   <= coin_transactions[rows[j]].transaction_date

\* ORDER BY ct.transaction_date DESC, over ledger rows named by their
\* position in the ledger
ByDateDesc(rows) ==
    \A i, j \in DOMAIN rows :
        i < j => coin_transactions[rows[i]].transaction_date
                   >= coin_transactions[rows[j]].transaction_date

\* FROM coin_transactions ct ... WHERE ct.receiver_user_id = $1
ReceivedRows(userID) ==
    {k \in DOMAIN coin_transactions :
        coin_transactions[k].receiver_user_id = userID}

\* FROM coin_transactions ct ... WHERE ct.sender_user_id = $1
SentRows(userID) ==
    {k \in DOMAIN coin_transactions :
        coin_transactions[k].sender_user_id = userID}

\* the rows.Next loop over the received rows, joined with the sender's name
ScanReceived(rows) ==
    [i \in DOMAIN rows |->
        [fromUser |-> users[coin_transactions[rows[i]].sender_user_id].username,
         toUser |-> "", amount |-> coin_transactions[rows[i]].amount]]

\* ScanSent joined with the sender's name instead of the receiver's
ScanSent_FromUser(rows) ==
    [i \in DOMAIN rows |->
        [fromUser |-> "",
         toUser |-> users[coin_transactions[rows[i]].sender_user_id].username,
         amount |-> coin_transactions[rows[i]].amount]]

\* the rows.Next loop over the sent rows, joined with the receiver's name
ScanSent(rows) ==
    [i \in DOMAIN rows |->
        [fromUser |-> "",
         toUser |-> users[coin_transactions[rows[i]].receiver_user_id].username,
         amount |-> coin_transactions[rows[i]].amount]]

\* GetUserInfo is called
GetUserInfoEnter(username) ==
    [IdleReq EXCEPT !.op = "GetUserInfo", !.username = username,
                    !.pc = "getUser"]

GetUserInfoCall(r, username) ==
    /\ CanCall(r)
    /\ req' = [req EXCEPT ![r] = GetUserInfoEnter(username)]
    /\ Called(r)
    /\ UNCHANGED <<users, inventory, coin_transactions, clock, failures>>

\* user, err := GetUserByUsername(username)
GetUserInfoGetUser(r, fail) ==
    /\ req[r].op = "GetUserInfo" /\ req[r].pc = "getUser"
    /\ MayFail(fail)
    /\ LET u == GetUserByUsername(req[r].username) IN
       req' = [req EXCEPT ![r] =
                 IF fail THEN [Return(r, ErrStore) EXCEPT !.failed = TRUE]
                 ELSE IF u = NilUser THEN Return(r, ErrUserNotFound)
                 ELSE [req[r] EXCEPT !.user = u, !.pc = "getInventory"]]
    /\ failures' = IF fail THEN failures + 1 ELSE failures
    /\ UNCHANGED <<users, inventory, coin_transactions, clock, snap, alone>>

\* inventoryDB, err := GetUserInventory(user.ID); the query has no ORDER BY
GetUserInfoGetInventory(r, fail) ==
    /\ req[r].op = "GetUserInfo" /\ req[r].pc = "getInventory"
    /\ MayFail(fail)
    /\ \E rows \in Orderings(GetUserInventory(req[r].user.id)) :
         req' = [req EXCEPT ![r] =
                   IF fail THEN [Return(r, ErrStore) EXCEPT !.failed = TRUE]
                   ELSE [req[r] EXCEPT !.inventoryDB = rows,
                                       !.pc = "historyReceived"]]
    /\ failures' = IF fail THEN failures + 1 ELSE failures
    /\ UNCHANGED <<users, inventory, coin_transactions, clock, snap, alone>>

\* GetCoinHistory: the query of the received transactions and its scan
GetUserInfoReceived(r, fail) ==
    /\ req[r].op = "GetUserInfo" /\ req[r].pc = "historyReceived"
    /\ MayFail(fail)
    /\ \E rows \in {o \in Orderings(ReceivedRows(req[r].user.id)) : ByDateDesc(o)} :
         req' = [req EXCEPT ![r] =
                   IF fail THEN [Return(r, ErrStore) EXCEPT !.failed = TRUE]
                   ELSE [req[r] EXCEPT
                           !.rowsReceived = rows,
                           !.response = [@ EXCEPT !.received = ScanReceived(rows)],
                           !.pc = "historySent"]]
    /\ failures' = IF fail THEN failures + 1 ELSE failures
    /\ UNCHANGED <<users, inventory, coin_transactions, clock, snap, alone>>

\* GetCoinHistory: the query of the sent transactions and its scan, then the
\* response of GetUserInfo
GetUserInfoSent(r, fail) ==
    /\ req[r].op = "GetUserInfo" /\ req[r].pc = "historySent"
    /\ MayFail(fail)
    /\ \E rows \in {o \in Orderings(SentRows(req[r].user.id)) : ByDateDesc(o)} :
         req' = [req EXCEPT ![r] =
                   IF fail THEN [Return(r, ErrStore) EXCEPT !.failed = TRUE]
                   ELSE [Return(r, ErrNil) EXCEPT
                           !.rowsSent = rows,
                           !.response =
                               [isNil |-> FALSE,
                                coins |-> req[r].user.coins,
                                inventory |-> ToInventory(req[r].inventoryDB),
                                received |-> req[r].response.received,
                                sent |-> ScanSent(rows)]]]
    /\ failures' = IF fail THEN failures + 1 ELSE failures
    /\ UNCHANGED <<users, inventory, coin_transactions, clock, snap, alone>>

(***************************************************************************)
(* The HTTP layer: AuthMiddleware, the handlers and the response helpers.  *)
(***************************************************************************)
StatusOK == 200
StatusBadRequest == 400
StatusUnauthorized == 401
StatusNotFound == 404
StatusInternalServerError == 500

\* the patterns of RegisterRoutes
RouteInfo == "/api/info"
RouteSendCoin == "/api/sendCoin"
RouteBuy == "/api/buy/"
RouteAuth == "/api/auth"
ProtectedRoutes == {RouteInfo, RouteSendCoin, RouteBuy}

\* the messages the middleware and the handlers write themselves
MsgNoToken == "unauthorized: no token"
MsgBadToken == "unauthorized: token rejected"
MsgBadRequest == "bad request."
MsgItemPathRequired == "item name is required in the path /api/buy/{itemName}"
MsgInternal == "internal server error."

\* the sentinel an error wraps with %w (ErrNil: none); a store error wraps
\* the driver's error
ErrInvalidRequest == "ErrInvalidRequest"
ErrNotFound == "ErrNotFound"
ErrUnauthorized == "ErrUnauthorized"
ErrDriver == "ErrDriver"
ErrContextCanceled == "context.Canceled"
Errors ==
    {ErrInvalidRequest, ErrNotFound, ErrUnauthorized, ErrDriver, ErrStore,
     ErrContextCanceled, ErrCanceled,
     ErrInvalidAmount, ErrUserNotFound, ErrReceiverNotFound, ErrSelfTransfer,
     ErrInsufficientFunds, ErrItemRequired, ErrItemNotFound, ErrNotEnoughCoins,
     ErrInvalidPassword}
Unwrap(err) ==
    IF err \in {ErrInsufficientFunds, ErrSelfTransfer, ErrReceiverNotFound,
                ErrInvalidAmount, ErrItemRequired, ErrNotEnoughCoins}
    THEN ErrInvalidRequest
    ELSE IF err \in {ErrUserNotFound, ErrItemNotFound} THEN ErrNotFound
    ELSE IF err = ErrInvalidPassword THEN ErrUnauthorized
    ELSE IF err = ErrStore THEN ErrDriver
    ELSE IF err = ErrCanceled THEN ErrContextCanceled
    ELSE ErrNil

\* errors.Is(err, target): target is err or is in the chain err wraps
RECURSIVE Is(_, _)
Is(err, target) ==
    IF err = ErrNil THEN FALSE
    ELSE IF err = target THEN TRUE
    ELSE Is(Unwrap(err), target)

\* the text an error adds to the text of the error it wraps
OwnText(err) ==
    CASE err = ErrInvalidRequest -> "invalid request"
      [] err = ErrNotFound -> "not found"
      [] err = ErrUnauthorized -> "unauthorized"
      [] err = ErrDriver -> "driver error"
      [] err = ErrStore -> "server error"
      [] err = ErrContextCanceled -> "context canceled"
      [] err = ErrCanceled -> "server error"
      [] err = ErrInsufficientFunds -> "not enough coins for the transfer"
      [] err = ErrSelfTransfer -> "cannot send coins to oneself"
      [] err = ErrReceiverNotFound -> "receiver not found"
      [] err = ErrInvalidAmount -> "the amount must be positive"
      [] err = ErrUserNotFound -> "user not found"
      [] err = ErrItemNotFound -> "item not found"
      [] err = ErrItemRequired -> "item name is required"
      [] err = ErrNotEnoughCoins -> "not enough coins"
      [] err = ErrInvalidPassword -> "wrong password"

\* err.Error(): fmt.Errorf("%w: text", wrapped) for the sentinels,
\* fmt.Errorf("text: %w", err) for a store error
RECURSIVE Error(_)
Error(err) ==
    IF Unwrap(err) = ErrNil THEN OwnText(err)
    ELSE IF err \in {ErrStore, ErrCanceled}
    THEN OwnText(err) \o ": " \o Error(Unwrap(err))
    ELSE Error(Unwrap(err)) \o ": " \o OwnText(err)

\* strings.Replace(authHeader, "Bearer ", "", 1): the token when the header
\* is "Bearer " and a token or a bare token, and text jwt.Parse cannot read
\* when another scheme stays in front of the token
TokenString(authHeader) ==
    IF authHeader.scheme \in {"Bearer ", ""} THEN authHeader.token ELSE NoToken

\* AuthMiddleware letting every request with a header through, under the
\* username its token claims
AuthMiddleware_NoVerify(authHeader) ==
    IF authHeader = NoHeader
    THEN [next |-> FALSE, username |-> "", status |-> StatusUnauthorized,
          body |-> ErrorBody(MsgNoToken)]
    ELSE [next |-> TRUE,
          username |-> IF \E c \in authHeader.token.claims : c[1] = "username"
                       THEN (CHOOSE c \in authHeader.token.claims :
                                 c[1] = "username")[2]
                       ELSE "",
          status |-> 0, body |-> NoBody]

\* AuthMiddleware up to next.ServeHTTP: whether the wrapped handler is
\* invoked and with which username in the context, or the response written
AuthMiddleware(authHeader) ==
    IF authHeader = NoHeader
    THEN [next |-> FALSE, username |-> "", status |-> StatusUnauthorized,
          body |-> ErrorBody(MsgNoToken)]
    ELSE IF VerifyJWTToken(TokenString(authHeader)).err
    THEN [next |-> FALSE, username |-> "", status |-> StatusUnauthorized,
          body |-> ErrorBody(MsgBadToken)]
    ELSE [next |-> TRUE,
          username |-> VerifyJWTToken(TokenString(authHeader)).username,
          status |-> 0, body |-> NoBody]

\* the request a handler has answered without calling a use case
Responded(status, body) ==
    [IdleReq EXCEPT !.pc = "done", !.status = status, !.body = body]

\* a protected route is requested: the middleware, then the wrapped handler
\* entered gives the request its locals
Protected(route, authHeader, entered) ==
    IF AuthMiddleware(authHeader).next
    THEN [entered EXCEPT !.route = route, !.authHeader = authHeader,
                         !.ctxUsername = AuthMiddleware(authHeader).username,
                         !.invoked = TRUE]
    ELSE [Responded(AuthMiddleware(authHeader).status,
                    AuthMiddleware(authHeader).body)
            EXCEPT !.route = route, !.authHeader = authHeader]

\* handleInfo up to its call of GetUserInfo
handleInfo(username) == GetUserInfoEnter(username)

\* handleSendCoin up to its call of SendCoin: the body is decoded and an
\* amount <= 0 answered before the use case
handleSendCoin(username, body) ==
    IF ~body.ok THEN Responded(StatusBadRequest, ErrorBody(MsgBadRequest))
    ELSE IF body.amount <= 0
    THEN [Responded(StatusBadRequest, ErrorBody(MsgBadRequest))
            EXCEPT !.decoded = TRUE, !.amount = body.amount]
    ELSE [SendCoinEnter(username, body.toUser, body.amount)
            EXCEPT !.decoded = TRUE]

\* handleBuyItem up to its call of BuyItem: itemPath is the path after
\* "/api/buy/"
handleBuyItem(username, itemPath) ==
    IF itemPath = ""
    THEN Responded(StatusBadRequest, ErrorBody(MsgItemPathRequired))
    ELSE BuyItemEnter(username, itemPath)

\* handleAuth up to its call of Auth
handleAuth(body) ==
    IF ~body.ok THEN Responded(StatusBadRequest, ErrorBody(MsgBadRequest))
    ELSE [AuthEnter(body.username, body.password) EXCEPT !.decoded = TRUE]

\* InfoResponse answering 500 to every error
InfoResponse_NotFound500(err) ==
    IF err = ErrNil THEN [status |-> StatusOK, body |-> JSONBody]
    ELSE [status |-> StatusInternalServerError, body |-> ErrorBody(MsgInternal)]

\* the response of handleInfo once GetUserInfo has returned err
InfoResponse(err) ==
    IF err = ErrNil THEN [status |-> StatusOK, body |-> JSONBody]
    ELSE IF Is(err, ErrUserNotFound)
    THEN [status |-> StatusNotFound, body |-> ErrorBody(Error(err))]
    ELSE [status |-> StatusInternalServerError, body |-> ErrorBody(MsgInternal)]

\* SendCoinResponse passing the text of the error into the 500 response
SendCoinResponse_ErrorText500(err) ==
    IF err = ErrNil THEN [status |-> StatusOK, body |-> NoBody]
    ELSE IF \/ Is(err, ErrInvalidAmount) \/ Is(err, ErrInsufficientFunds)
            \/ Is(err, ErrSelfTransfer) \/ Is(err, ErrReceiverNotFound)
            \/ Is(err, ErrUserNotFound)
    THEN [status |-> StatusBadRequest, body |-> ErrorBody(Error(err))]
    ELSE [status |-> StatusInternalServerError, body |-> ErrorBody(Error(err))]

\* SendCoinResponse without ErrUserNotFound among the errors answered 400
SendCoinResponse_SenderNotFound500(err) ==
    IF err = ErrNil THEN [status |-> StatusOK, body |-> NoBody]
    ELSE IF \/ Is(err, ErrInvalidAmount) \/ Is(err, ErrInsufficientFunds)
            \/ Is(err, ErrSelfTransfer) \/ Is(err, ErrReceiverNotFound)
    THEN [status |-> StatusBadRequest, body |-> ErrorBody(Error(err))]
    ELSE [status |-> StatusInternalServerError, body |-> ErrorBody(MsgInternal)]

\* the response of handleSendCoin once SendCoin has returned err
SendCoinResponse(err) ==
    IF err = ErrNil THEN [status |-> StatusOK, body |-> NoBody]
    ELSE IF \/ Is(err, ErrInvalidAmount) \/ Is(err, ErrInsufficientFunds)
            \/ Is(err, ErrSelfTransfer) \/ Is(err, ErrReceiverNotFound)
            \/ Is(err, ErrUserNotFound)
    THEN [status |-> StatusBadRequest, body |-> ErrorBody(Error(err))]
    ELSE [status |-> StatusInternalServerError, body |-> ErrorBody(MsgInternal)]

\* BuyItemResponse answering the fixed message for the errors it answers 400
BuyItemResponse_FixedMessage(err) ==
    IF err = ErrNil THEN [status |-> StatusOK, body |-> NoBody]
    ELSE IF \/ Is(err, ErrItemNotFound) \/ Is(err, ErrItemRequired)
            \/ Is(err, ErrNotEnoughCoins) \/ Is(err, ErrUserNotFound)
    THEN [status |-> StatusBadRequest, body |-> ErrorBody(MsgBadRequest)]
    ELSE [status |-> StatusInternalServerError, body |-> ErrorBody(MsgInternal)]

\* the response of handleBuyItem once BuyItem has returned err
BuyItemResponse(err) ==
    IF err = ErrNil THEN [status |-> StatusOK, body |-> NoBody]
    ELSE IF \/ Is(err, ErrItemNotFound) \/ Is(err, ErrItemRequired)
            \/ Is(err, ErrNotEnoughCoins) \/ Is(err, ErrUserNotFound)
    THEN [status |-> StatusBadRequest, body |-> ErrorBody(Error(err))]
    ELSE [status |-> StatusInternalServerError, body |-> ErrorBody(MsgInternal)]

\* AuthResponse answering 401 to every error
AuthResponse_AlwaysUnauthorized(err) ==
    IF err = ErrNil THEN [status |-> StatusOK, body |-> JSONBody]
    ELSE [status |-> StatusUnauthorized, body |-> ErrorBody(Error(err))]

\* the response of handleAuth once Auth has returned err
AuthResponse(err) ==
    IF err = ErrNil THEN [status |-> StatusOK, body |-> JSONBody]
    ELSE IF Is(err, ErrInvalidPassword)
    THEN [status |-> StatusUnauthorized, body |-> ErrorBody(Error(err))]
    ELSE [status |-> StatusInternalServerError, body |-> ErrorBody(MsgInternal)]

\* the requests clients send: tokens issued by Auth to an account holder
\* and to a username without an account, tokens the server did not issue,
\* and bodies that are not JSON or that hold the fields of the request
Clients == {"alice", "ghost"}
ValidTokens == {GenerateJWTToken(u) : u \in Clients}
ForgedTokens ==
    { SignedString("HS256", {<<"username", "alice">>}, otherSecret),
      SignedString("none", {<<"username", "alice">>}, ""),
      SignedString("HS256", {<<"sub", "alice">>}, jwtSecret) }
AuthHeaders ==
    {NoHeader}
      \cup {[scheme |-> "Bearer ", token |-> t] : t \in ValidTokens \cup ForgedTokens}
      \cup {[scheme |-> "Basic ", token |-> GenerateJWTToken("alice")]}
BadJSON == [ok |-> FALSE, toUser |-> "", amount |-> 0, username |-> "",
            password |-> ""]
SendCoinBodies ==
    {BadJSON} \cup {[BadJSON EXCEPT !.ok = TRUE, !.toUser = t, !.amount = a] :
                       t \in Usernames, a \in Amounts}
AuthBodies ==
    {BadJSON} \cup {[BadJSON EXCEPT !.ok = TRUE, !.username = u, !.password = pw] :
                       u \in Clients, pw \in Passwords}

\* GET /api/info arrives
ServeInfo(r, authHeader) ==
    /\ CanCall(r)
    /\ req' = [req EXCEPT ![r] =
                 Protected(RouteInfo, authHeader,
                     handleInfo(AuthMiddleware(authHeader).username))]
    /\ Called(r)
    /\ UNCHANGED <<users, inventory, coin_transactions, clock, failures>>

\* POST /api/sendCoin arrives
ServeSendCoin(r, authHeader, body) ==
    /\ CanCall(r)
    /\ req' = [req EXCEPT ![r] =
                 Protected(RouteSendCoin, authHeader,
                     handleSendCoin(AuthMiddleware(authHeader).username, body))]
    /\ Called(r)
    /\ UNCHANGED <<users, inventory, coin_transactions, clock, failures>>

\* a request under /api/buy/ arrives
ServeBuyItem(r, authHeader, itemPath) ==
    /\ CanCall(r)
    /\ req' = [req EXCEPT ![r] =
                 Protected(RouteBuy, authHeader,
                     handleBuyItem(AuthMiddleware(authHeader).username, itemPath))]
    /\ Called(r)
    /\ UNCHANGED <<users, inventory, coin_transactions, clock, failures>>

\* POST /api/auth arrives: the route is not wrapped by the middleware
ServeAuth(r, body) ==
    /\ CanCall(r)
    /\ req' = [req EXCEPT ![r] = [handleAuth(body) EXCEPT !.route = RouteAuth]]
    /\ Called(r)
    /\ UNCHANGED <<users, inventory, coin_transactions, clock, failures>>

\* the use case has returned (a panic passes through the handler, which
\* answers nothing) and the handler has not answered yet
Returned(r, route) ==
    /\ req[r].route = route /\ req[r].op # "none" /\ req[r].pc = "done"
    /\ req[r].ret # ErrPanic
    /\ req[r].status = 0

\* handleInfo answers
RespondInfo(r) ==
    /\ Returned(r, RouteInfo)
    /\ req' = [req EXCEPT ![r].status = InfoResponse(req[r].ret).status,
                          ![r].body = InfoResponse(req[r].ret).body]
    /\ UNCHANGED <<users, inventory, coin_transactions, clock, snap, alone,
                   failures>>

\* handleSendCoin answers
RespondSendCoin(r) ==
    /\ Returned(r, RouteSendCoin)
    /\ req' = [req EXCEPT ![r].status = SendCoinResponse(req[r].ret).status,
                          ![r].body = SendCoinResponse(req[r].ret).body]
    /\ UNCHANGED <<users, inventory, coin_transactions, clock, snap, alone,
                   failures>>

\* handleBuyItem answers
RespondBuyItem(r) ==
    /\ Returned(r, RouteBuy)
    /\ req' = [req EXCEPT ![r].status = BuyItemResponse(req[r].ret).status,
                          ![r].body = BuyItemResponse(req[r].ret).body]
    /\ UNCHANGED <<users, inventory, coin_transactions, clock, snap, alone,
                   failures>>

\* handleAuth answers
RespondAuth(r) ==
    /\ Returned(r, RouteAuth)
    /\ req' = [req EXCEPT ![r].status = AuthResponse(req[r].ret).status,
                          ![r].body = AuthResponse(req[r].ret).body]
    /\ UNCHANGED <<users, inventory, coin_transactions, clock, snap, alone,
                   failures>>

(***************************************************************************)
(* The system.                                                             *)
(***************************************************************************)
Next ==
    \/ \E r \in Reqs, s \in Usernames, t \in Usernames, a \in Amounts :
          SendCoinCall(r, s, t, a)
    \/ \E r \in Reqs, fail \in BOOLEAN : SendCoinGetSender(r, fail)
    \/ \E r \in Reqs, fail \in BOOLEAN : SendCoinGetReceiver(r, fail)
    \/ \E r \in Reqs, fail \in BOOLEAN : SendCoinBeginTx(r, fail)
    \/ \E r \in Reqs, fail \in BOOLEAN : SendCoinDebit(r, fail)
    \/ \E r \in Reqs, fail \in BOOLEAN : SendCoinCredit(r, fail)
    \/ \E r \in Reqs, fail \in BOOLEAN : SendCoinRecord(r, fail)
    \/ \E r \in Reqs, fail \in BOOLEAN : SendCoinCommit(r, fail)
    \/ \E r \in Reqs : SendCoinPanic(r)
    \/ \E r \in Reqs : SendCoinCancel(r)
    \/ \E r \in Reqs, u \in Usernames, it \in ItemNames : BuyItemCall(r, u, it)
    \/ \E r \in Reqs, fail \in BOOLEAN : BuyItemGetPrice(r, fail)
    \/ \E r \in Reqs, fail \in BOOLEAN : BuyItemGetUser(r, fail)
    \/ \E r \in Reqs, fail \in BOOLEAN : BuyItemBeginTx(r, fail)
    \/ \E r \in Reqs, fail \in BOOLEAN : BuyItemDebit(r, fail)
    \/ \E r \in Reqs, fail \in BOOLEAN : BuyItemInvSelect(r, fail)
    \/ \E r \in Reqs, fail \in BOOLEAN : BuyItemInvWrite(r, fail)
    \/ \E r \in Reqs, fail \in BOOLEAN : BuyItemCommit(r, fail)
    \/ \E r \in Reqs : BuyItemPanic(r)
    \/ \E r \in Reqs : BuyItemCancel(r)
    \/ \E r \in Reqs, u \in Usernames, pw \in Passwords : AuthCall(r, u, pw)
    \/ \E r \in Reqs, fail \in BOOLEAN : AuthGetUser(r, fail)
    \/ \E r \in Reqs, fail \in BOOLEAN : AuthCreateUser(r, fail)
    \/ \E r \in Reqs, fail \in BOOLEAN : AuthGetUserAgain(r, fail)
    \/ \E r \in Reqs, fail \in BOOLEAN : AuthSetInitialCoins(r, fail)
    \/ \E r \in Reqs, u \in Usernames : GetUserInfoCall(r, u)
    \/ \E r \in Reqs, fail \in BOOLEAN : GetUserInfoGetUser(r, fail)
    \/ \E r \in Reqs, fail \in BOOLEAN : GetUserInfoGetInventory(r, fail)
    \/ \E r \in Reqs, fail \in BOOLEAN : GetUserInfoReceived(r, fail)
    \/ \E r \in Reqs, fail \in BOOLEAN : GetUserInfoSent(r, fail)

Spec == Init /\ [][Next]_vars

\* the next statement of call r: the goroutine serving the call runs it when
\* the store lets it, with either outcome
Step(r) ==
    \E fail \in BOOLEAN :
        \/ SendCoinGetSender(r, fail) \/ SendCoinGetReceiver(r, fail)
        \/ SendCoinBeginTx(r, fail) \/ SendCoinDebit(r, fail)
        \/ SendCoinCredit(r, fail) \/ SendCoinRecord(r, fail)
        \/ SendCoinCommit(r, fail)
        \/ BuyItemGetPrice(r, fail) \/ BuyItemGetUser(r, fail)
        \/ BuyItemBeginTx(r, fail) \/ BuyItemDebit(r, fail)
        \/ BuyItemInvSelect(r, fail) \/ BuyItemInvWrite(r, fail)
        \/ BuyItemCommit(r, fail)
        \/ AuthGetUser(r, fail) \/ AuthCreateUser(r, fail)
        \/ AuthGetUserAgain(r, fail) \/ AuthSetInitialCoins(r, fail)
        \/ GetUserInfoGetUser(r, fail) \/ GetUserInfoGetInventory(r, fail)
        \/ GetUserInfoReceived(r, fail) \/ GetUserInfoSent(r, fail)

\* the use cases under a fair scheduler: no goroutine whose next statement
\* can run is held back for ever
SpecFair == Init /\ [][Next]_vars /\ \A r \in Reqs : WF_vars(Step(r))

\* the server behind its routes: every use case is entered through its handler
NextHTTP ==
    \/ \E r \in Reqs, h \in AuthHeaders : ServeInfo(r, h)
    \/ \E r \in Reqs, h \in AuthHeaders, b \in SendCoinBodies :
          ServeSendCoin(r, h, b)
    \/ \E r \in Reqs, h \in AuthHeaders, it \in ItemNames : ServeBuyItem(r, h, it)
    \/ \E r \in Reqs, b \in AuthBodies : ServeAuth(r, b)
    \/ \E r \in Reqs, fail \in BOOLEAN : SendCoinGetSender(r, fail)
    \/ \E r \in Reqs, fail \in BOOLEAN : SendCoinGetReceiver(r, fail)
    \/ \E r \in Reqs, fail \in BOOLEAN : SendCoinBeginTx(r, fail)
    \/ \E r \in Reqs, fail \in BOOLEAN : SendCoinDebit(r, fail)
    \/ \E r \in Reqs, fail \in BOOLEAN : SendCoinCredit(r, fail)
    \/ \E r \in Reqs, fail \in BOOLEAN : SendCoinRecord(r, fail)
    \/ \E r \in Reqs, fail \in BOOLEAN : SendCoinCommit(r, fail)
    \/ \E r \in Reqs : SendCoinPanic(r)
    \/ \E r \in Reqs : SendCoinCancel(r)
    \/ \E r \in Reqs, fail \in BOOLEAN : BuyItemGetPrice(r, fail)
    \/ \E r \in Reqs, fail \in BOOLEAN : BuyItemGetUser(r, fail)
    \/ \E r \in Reqs, fail \in BOOLEAN : BuyItemBeginTx(r, fail)
    \/ \E r \in Reqs, fail \in BOOLEAN : BuyItemDebit(r, fail)
    \/ \E r \in Reqs, fail \in BOOLEAN : BuyItemInvSelect(r, fail)
    \/ \E r \in Reqs, fail \in BOOLEAN : BuyItemInvWrite(r, fail)
    \/ \E r \in Reqs, fail \in BOOLEAN : BuyItemCommit(r, fail)
    \/ \E r \in Reqs : BuyItemPanic(r)
    \/ \E r \in Reqs : BuyItemCancel(r)
    \/ \E r \in Reqs, fail \in BOOLEAN : AuthGetUser(r, fail)
    \/ \E r \in Reqs, fail \in BOOLEAN : AuthCreateUser(r, fail)
    \/ \E r \in Reqs, fail \in BOOLEAN : AuthGetUserAgain(r, fail)
    \/ \E r \in Reqs, fail \in BOOLEAN : AuthSetInitialCoins(r, fail)
    \/ \E r \in Reqs, fail \in BOOLEAN : GetUserInfoGetUser(r, fail)
    \/ \E r \in Reqs, fail \in BOOLEAN : GetUserInfoGetInventory(r, fail)
    \/ \E r \in Reqs, fail \in BOOLEAN : GetUserInfoReceived(r, fail)
    \/ \E r \in Reqs, fail \in BOOLEAN : GetUserInfoSent(r, fail)
    \/ \E r \in Reqs : RespondInfo(r)
    \/ \E r \in Reqs : RespondSendCoin(r)
    \/ \E r \in Reqs : RespondBuyItem(r)
    \/ \E r \in Reqs : RespondAuth(r)

SpecHTTP == Init /\ [][NextHTTP]_vars

(***************************************************************************)
(* Vocabulary of the properties.                                           *)
(***************************************************************************)
Done(r) == req[r].op # "none" /\ req[r].pc = "done"

\* the row of username in a users table, NilUser when there is none
FindUser(us, username) ==
    IF \E i \in DOMAIN us : us[i].username = username
    THEN us[CHOOSE i \in DOMAIN us : us[i].username = username]
    ELSE NilUser

RECURSIVE SumCoins(_)
SumCoins(us) == IF us = <<>> THEN 0 ELSE Head(us).coins + SumCoins(Tail(us))

RECURSIVE SumQuantity(_)
SumQuantity(rows) ==
    IF rows = {} THEN 0
    ELSE LET row == CHOOSE x \in rows : TRUE
         IN row.quantity + SumQuantity(rows \ {row})

RECURSIVE SumPrices(_)
SumPrices(rs) ==
    IF rs = {} THEN 0
    ELSE LET r == CHOOSE x \in rs : TRUE
         IN GetItemPrice(req[r].item) + SumPrices(rs \ {r})

\* the (account, item, quantity) entries of inventory rows
Entries(rows) ==
    {[user_id |-> row.user_id, item_type |-> row.item_type,
      quantity |-> row.quantity] : row \in rows}

\* a users table with the coins of one username replaced
WithCoins(us, username, coins) ==
    [i \in DOMAIN us |-> IF us[i].username = username
                         THEN [us[i] EXCEPT !.coins = coins] ELSE us[i]]

\* the committed tables are those request r saw at its call
TablesUnchanged(r) ==
    /\ users = snap[r].users
    /\ inventory = snap[r].inventory
    /\ coin_transactions = snap[r].coin_transactions

\* request r ran to its return with no store failure and with no other
\* request changing the tables since its call
RanAlone(r) == Done(r) /\ alone[r] /\ ~req[r].failed

\* C1: once every request, all of them SendCoin calls that ran without a
\* store failure, has returned, the sum of all balances equals the sum before
\* the first call, whatever the interleaving of their store steps.
C1_TransfersConserveCoins ==
    ( /\ \A r \in Reqs : req[r].op = "SendCoin" /\ Done(r)
      /\ failures = 0 )
    => SumCoins(users) = SumCoins(snap[1].users)

\* C2: a SendCoin call, running alone, in which the debit, the credit, the
\* ledger insert or the commit failed leaves both balances and the ledger as
\* they were at its call.
C2_SendCoinAllOrNothing ==
    \A r \in Reqs :
        ( /\ req[r].op = "SendCoin" /\ Done(r) /\ alone[r]
          /\ req[r].failed /\ req[r].nBegin > 0 )
        => /\ users = snap[r].users
           /\ coin_transactions = snap[r].coin_transactions

\* C3: a BuyItem call, running alone, in which the inventory upsert or the
\* commit failed after the debit was issued leaves the balance and the
\* inventory as they were at its call.
C3_BuyItemAllOrNothing ==
    \A r \in Reqs :
        ( /\ req[r].op = "BuyItem" /\ Done(r) /\ alone[r]
          /\ req[r].failed /\ req[r].nWrites > 0 )
        => /\ users = snap[r].users
           /\ inventory = snap[r].inventory

\* C4: in every reachable state every account's balance is at least 0.
C4_NoNegativeBalance ==
    \A i \in DOMAIN users : users[i].coins >= 0

\* a purchase has taken an account's balance down to exactly 0
C4_Witness ==
    \E r \in Reqs :
        /\ req[r].op = "BuyItem" /\ Done(r) /\ req[r].ret = ErrNil
        /\ FindUser(users, req[r].username).coins = 0

\* C5: a SendCoin call that passed validation and ran alone without a store
\* failure took exactly amount from the sender, gave exactly amount to the
\* receiver, appended exactly one ledger row {sender, receiver, amount} and
\* changed no other balance and no inventory row.
C5_SendCoinEffect ==
    \A r \in Reqs :
        (req[r].op = "SendCoin" /\ RanAlone(r) /\ req[r].ret = ErrNil)
        => LET s == FindUser(snap[r].users, req[r].username)
               t == FindUser(snap[r].users, req[r].receiver)
               n == Len(snap[r].coin_transactions)
           IN /\ s # NilUser /\ t # NilUser
              /\ users = WithCoins(WithCoins(snap[r].users, s.username,
                                             s.coins - req[r].amount),
                                   t.username, t.coins + req[r].amount)
              /\ FindUser(users, s.username).coins + FindUser(users, t.username).coins
                    = s.coins + t.coins
              /\ Len(coin_transactions) = n + 1
              /\ SubSeq(coin_transactions, 1, n) = snap[r].coin_transactions
              /\ coin_transactions[n + 1].sender_user_id = s.id
              /\ coin_transactions[n + 1].receiver_user_id = t.id
              /\ coin_transactions[n + 1].amount = req[r].amount
              /\ inventory = snap[r].inventory

\* a transfer has completed alone and moved a positive amount
C5_Witness ==
    \E r \in Reqs :
        /\ req[r].op = "SendCoin" /\ RanAlone(r) /\ req[r].ret = ErrNil
        /\ req[r].amount > 0 /\ req[r].tx = "committed"

\* C6: a BuyItem call that passed validation and ran alone without a store
\* failure took exactly the catalog price from the account, raised the
\* account's quantity of the item by exactly 1 (a new row of quantity 1 when
\* there was none) and changed no other balance, no other inventory row and
\* no ledger row.
C6_BuyItemEffect ==
    \A r \in Reqs :
        (req[r].op = "BuyItem" /\ RanAlone(r) /\ req[r].ret = ErrNil)
        => LET u == FindUser(snap[r].users, req[r].username)
               old == {row \in snap[r].inventory :
                          row.user_id = u.id /\ row.item_type = req[r].item}
               q == IF old = {} THEN 0 ELSE (CHOOSE row \in old : TRUE).quantity
           IN /\ u # NilUser /\ HasItem(req[r].item)
              /\ users = WithCoins(snap[r].users, u.username,
                                   u.coins - GetItemPrice(req[r].item))
              /\ Entries(inventory) = (Entries(snap[r].inventory) \ Entries(old))
                                \cup {[user_id |-> u.id, item_type |-> req[r].item,
                                       quantity |-> q + 1]}
              /\ Cardinality(inventory) = Cardinality(snap[r].inventory)
                                             + (IF old = {} THEN 1 ELSE 0)
              /\ coin_transactions = snap[r].coin_transactions

\* a repeat purchase has completed alone: the row existed and now holds 2
C6_Witness ==
    \E r \in Reqs :
        /\ req[r].op = "BuyItem" /\ RanAlone(r) /\ req[r].ret = ErrNil
        /\ req[r].existingQuantity = 1
        /\ \E row \in inventory : row.item_type = req[r].item /\ row.quantity = 2

\* C7: once every request, all of them BuyItem calls for the same account
\* that ran without a store failure, has returned, the account's balance has
\* gone down by the sum of the prices of the calls that returned success and
\* its inventory quantities have gone up by the number of those calls.
C7_ConcurrentPurchasesAllApplied ==
    ( /\ \A r \in Reqs : req[r].op = "BuyItem" /\ Done(r)
      /\ \A r \in Reqs : req[r].username = req[1].username
      /\ failures = 0
      /\ FindUser(snap[1].users, req[1].username) # NilUser )
    => LET u == FindUser(snap[1].users, req[1].username)
           ok == {r \in Reqs : req[r].ret = ErrNil}
       IN /\ FindUser(users, u.username).coins = u.coins - SumPrices(ok)
          /\ SumQuantity({row \in inventory : row.user_id = u.id})
                = SumQuantity({row \in snap[1].inventory : row.user_id = u.id})
                    + Cardinality(ok)

\* the result the fixed order of SendCoin's five checks gives on a users table
SendCoinExpected(us, senderUsername, receiverUsername, amount) ==
    IF amount <= 0 THEN ErrInvalidAmount
    ELSE IF FindUser(us, senderUsername) = NilUser THEN ErrUserNotFound
    ELSE IF FindUser(us, receiverUsername) = NilUser THEN ErrReceiverNotFound
    ELSE IF senderUsername = receiverUsername THEN ErrSelfTransfer
    ELSE IF FindUser(us, senderUsername).coins < amount THEN ErrInsufficientFunds
    ELSE ErrNil

\* C8: a SendCoin call that ran alone without a store failure returns the
\* error of the first failing check in the order amount > 0, sender exists,
\* receiver exists, sender is not receiver, sender.coins >= amount, and it
\* begins its transaction only if all five pass.
C8_SendCoinCheckOrder ==
    \A r \in Reqs :
        (req[r].op = "SendCoin" /\ RanAlone(r))
        => LET e == SendCoinExpected(snap[r].users, req[r].username,
                                     req[r].receiver, req[r].amount)
           IN /\ req[r].ret = e
              /\ (req[r].nBegin > 0 <=> e = ErrNil)

\* a transfer to oneself of more than one holds is answered SelfTransfer
C8_Witness ==
    \E r \in Reqs :
        /\ req[r].op = "SendCoin" /\ RanAlone(r)
        /\ req[r].ret = ErrSelfTransfer
        /\ FindUser(snap[r].users, req[r].username).coins < req[r].amount

\* the result the fixed order of BuyItem's four checks gives on a users table
BuyItemExpected(us, username, item) ==
    IF item = "" THEN ErrItemRequired
    ELSE IF ~HasItem(item) THEN ErrItemNotFound
    ELSE IF FindUser(us, username) = NilUser THEN ErrUserNotFound
    ELSE IF FindUser(us, username).coins < GetItemPrice(item) THEN ErrNotEnoughCoins
    ELSE ErrNil

\* C9: a BuyItem call that ran alone without a store failure returns the
\* error of the first failing check in the order item name non-empty, item in
\* the catalog, account exists, account.coins >= price, and it begins its
\* transaction only if all four pass.
C9_BuyItemCheckOrder ==
    \A r \in Reqs :
        (req[r].op = "BuyItem" /\ RanAlone(r))
        => LET e == BuyItemExpected(snap[r].users, req[r].username, req[r].item)
           IN /\ req[r].ret = e
              /\ (req[r].nBegin > 0 <=> e = ErrNil)

\* an unknown account asking for a catalog item is answered AccountNotFound
C9_Witness ==
    \E r \in Reqs :
        /\ req[r].op = "BuyItem" /\ RanAlone(r)
        /\ req[r].ret = ErrUserNotFound
        /\ HasItem(req[r].item)
        /\ FindUser(snap[r].users, req[r].username) = NilUser

SendCoinValidationErrors ==
    {ErrInvalidAmount, ErrUserNotFound, ErrReceiverNotFound, ErrSelfTransfer,
     ErrInsufficientFunds}

\* C10: a SendCoin call rejected by validation has begun no transaction and
\* issued no store write, and when no other request wrote since its call the
\* balances, the ledger and the inventory are as they were at its call.
C10_RejectedSendCoinNoEffect ==
    \A r \in Reqs :
        ( /\ req[r].op = "SendCoin" /\ Done(r)
          /\ req[r].ret \in SendCoinValidationErrors )
        => /\ req[r].nBegin = 0 /\ req[r].nWrites = 0 /\ req[r].tx = "none"
           /\ alone[r] => TablesUnchanged(r)

\* a transfer of more than the sender holds has been rejected
C10_Witness ==
    \E r \in Reqs :
        /\ req[r].op = "SendCoin" /\ Done(r) /\ alone[r]
        /\ req[r].ret = ErrInsufficientFunds
        /\ FindUser(users, req[r].receiver) # NilUser

BuyItemValidationErrors ==
    {ErrItemRequired, ErrItemNotFound, ErrUserNotFound, ErrNotEnoughCoins}

\* C11: a BuyItem call rejected by validation has begun no transaction and
\* issued no store write, and when no other request wrote since its call
\* every balance, every inventory entry and the ledger are as they were at
\* its call.
C11_RejectedBuyItemNoEffect ==
    \A r \in Reqs :
        ( /\ req[r].op = "BuyItem" /\ Done(r)
          /\ req[r].ret \in BuyItemValidationErrors )
        => /\ req[r].nBegin = 0 /\ req[r].nWrites = 0 /\ req[r].tx = "none"
           /\ alone[r] => TablesUnchanged(r)

\* an account holding less than the price of an existing item tried to buy
\* it, got ErrNotEnoughCoins and still holds what it held
C11_Witness ==
    \E r \in Reqs :
        /\ req[r].op = "BuyItem" /\ Done(r) /\ alone[r]
        /\ req[r].ret = ErrNotEnoughCoins
        /\ HasItem(req[r].item)
        /\ FindUser(users, req[r].username) # NilUser
        /\ FindUser(users, req[r].username).coins < GetItemPrice(req[r].item)
        /\ FindUser(users, req[r].username)
             = FindUser(snap[r].users, req[r].username)

\* C12: an Auth call for a username that had no account at the call, served
\* without a store failure and with no other request writing meanwhile,
\* returns nil, has added exactly one account (that username, the hash of the
\* given password, InitialCoins coins) and nothing else, and returns a token
\* that VerifyJWTToken maps back to the username.
C12_AuthRegisters ==
    \A r \in Reqs :
        ( /\ req[r].op = "Auth" /\ RanAlone(r)
          /\ FindUser(snap[r].users, req[r].username) = NilUser )
        => /\ req[r].ret = ErrNil
           /\ users = Append(snap[r].users,
                             [id |-> Len(snap[r].users) + 1,
                              username |-> req[r].username,
                              password_hash |-> Hash(req[r].password),
                              coins |-> InitialCoins])
           /\ inventory = snap[r].inventory
           /\ coin_transactions = snap[r].coin_transactions
           /\ VerifyJWTToken(req[r].token)
                = [username |-> req[r].username, err |-> FALSE]

\* a username without an account has been registered beside accounts whose
\* balance is not the starting grant
C12_Witness ==
    \E r \in Reqs :
        /\ req[r].op = "Auth" /\ RanAlone(r)
        /\ FindUser(snap[r].users, req[r].username) = NilUser
        /\ FindUser(users, req[r].username).coins = InitialCoins
        /\ \E i \in DOMAIN snap[r].users : snap[r].users[i].coins # InitialCoins

\* C13: an Auth call for a username that had an account at the call, served
\* without a store failure and with no other request writing meanwhile,
\* returns nil and a token of that username when the stored hash is the hash
\* of the given password, and ErrInvalidPassword and the empty token when
\* it is not; either way it issued no store write and the accounts, the
\* inventory and the ledger are as they were at the call.
C13_AuthLogin ==
    \A r \in Reqs :
        ( /\ req[r].op = "Auth" /\ RanAlone(r)
          /\ FindUser(snap[r].users, req[r].username) # NilUser )
        => /\ IF FindUser(snap[r].users, req[r].username).password_hash
                   = Hash(req[r].password)
              THEN /\ req[r].ret = ErrNil
                   /\ VerifyJWTToken(req[r].token)
                        = [username |-> req[r].username, err |-> FALSE]
              ELSE /\ req[r].ret = ErrInvalidPassword
                   /\ req[r].token = NoToken
           /\ req[r].nWrites = 0
           /\ TablesUnchanged(r)

\* one login with the right password and one with a wrong password have
\* both been answered for the same account
C13_Witness ==
    \E r, q \in Reqs :
        /\ req[r].op = "Auth" /\ RanAlone(r) /\ req[r].ret = ErrNil
        /\ req[q].op = "Auth" /\ RanAlone(q) /\ req[q].ret = ErrInvalidPassword
        /\ req[r].username = req[q].username
        /\ FindUser(snap[r].users, req[r].username) # NilUser

\* how many times e occurs in the sequence seq
Occurrences(seq, e) == Cardinality({i \in DOMAIN seq : seq[i] = e})

\* two sequences hold the same elements the same number of times
SameElements(a, b) ==
    /\ Len(a) = Len(b)
    /\ \A i \in DOMAIN a : Occurrences(a, a[i]) = Occurrences(b, a[i])

\* the inventory entries of account id in the inventory table rows
InventoryOf(rows, id) ==
    {[type |-> row.item_type, quantity |-> row.quantity] :
        row \in {x \in rows : x.user_id = id}}

\* C14: a GetUserInfo call issues no store write and begins no transaction;
\* served without a store failure and with no other request writing
\* meanwhile, it leaves the accounts, the inventory and the ledger as they
\* were, and it returns nil with the account's coins and exactly its
\* inventory entries when the username has an account, ErrUserNotFound and
\* a nil response when it has none.
C14_GetUserInfoPureRead ==
    \A r \in Reqs :
        req[r].op = "GetUserInfo"
        => /\ req[r].nWrites = 0 /\ req[r].nBegin = 0 /\ req[r].tx = "none"
           /\ RanAlone(r)
               => /\ TablesUnchanged(r)
                  /\ LET u == FindUser(users, req[r].username) IN
                     IF u = NilUser
                     THEN /\ req[r].ret = ErrUserNotFound
                          /\ req[r].response = NilResponse
                     ELSE /\ req[r].ret = ErrNil
                          /\ ~req[r].response.isNil
                          /\ req[r].response.coins = u.coins
                          /\ Len(req[r].response.inventory)
                               = Cardinality(InventoryOf(inventory, u.id))
                          /\ {req[r].response.inventory[i] :
                                 i \in DOMAIN req[r].response.inventory}
                               = InventoryOf(inventory, u.id)

\* GetUserInfo has answered for an account that holds an item and whose
\* balance is not the starting grant
C14_Witness ==
    \E r \in Reqs :
        /\ req[r].op = "GetUserInfo" /\ RanAlone(r) /\ req[r].ret = ErrNil
        /\ Len(req[r].response.inventory) > 0
        /\ req[r].response.coins # InitialCoins

\* the received history the ledger holds for account id
LedgerReceived(ledger, us, id) ==
    LET rows == SelectSeq(ledger, LAMBDA t : t.receiver_user_id = id) IN
    [i \in DOMAIN rows |-> [fromUser |-> us[rows[i].sender_user_id].username,
                            toUser |-> "", amount |-> rows[i].amount]]

\* the sent history the ledger holds for account id
LedgerSent(ledger, us, id) ==
    LET rows == SelectSeq(ledger, LAMBDA t : t.sender_user_id = id) IN
    [i \in DOMAIN rows |-> [fromUser |-> "",
                            toUser |-> us[rows[i].receiver_user_id].username,
                            amount |-> rows[i].amount]]

\* C15: the history GetUserInfo returns for an account, served without a
\* store failure and with no other request writing meanwhile, is exactly the
\* ledger: received holds one element {fromUser, amount} for each ledger
\* entry to the account and sent one element {toUser, amount} for each
\* ledger entry from it, nothing missing and nothing extra.
C15_HistoryIsLedger ==
    \A r \in Reqs :
        ( /\ req[r].op = "GetUserInfo" /\ RanAlone(r)
          /\ FindUser(users, req[r].username) # NilUser )
        => LET id == FindUser(users, req[r].username).id IN
           /\ SameElements(req[r].response.received,
                           LedgerReceived(coin_transactions, users, id))
           /\ SameElements(req[r].response.sent,
                           LedgerSent(coin_transactions, users, id))

\* after a transfer served by SendCoin, GetUserInfo has answered for its
\* sender with that transfer in the sent history
C15_Witness ==
    \E r, q \in Reqs :
        /\ req[q].op = "SendCoin" /\ req[q].tx = "committed"
        /\ req[r].op = "GetUserInfo" /\ RanAlone(r) /\ req[r].ret = ErrNil
        /\ req[r].username = req[q].username
        /\ \E i \in DOMAIN req[r].response.sent :
              /\ req[r].response.sent[i].toUser = req[q].receiver
              /\ req[r].response.sent[i].amount = req[q].amount
        /\ Len(req[r].response.sent) = 2

\* the ledger rows, by position, that request q committed
RowsOf(q) ==
    {k \in DOMAIN coin_transactions :
        /\ k \notin DOMAIN snap[q].coin_transactions
        /\ \E i \in DOMAIN req[q].txLedger :
              coin_transactions[k] = req[q].txLedger[i]}

\* in the list rows of ledger positions, every transfer committed by a
\* request comes before every transfer that was in the ledger when that
\* request was called
NewestFirst(rows) ==
    \A q \in Reqs :
        ( req[q].op = "SendCoin" /\ req[q].tx = "committed" )
        => \A i, j \in DOMAIN rows :
              ( /\ rows[i] \in DOMAIN snap[q].coin_transactions
                /\ rows[j] \in RowsOf(q) )
              => j < i

\* C16: in the received and the sent lists GetUserInfo returns, a transfer
\* T2 started after transfer T1 had completed comes before T1.
C16_HistoryNewestFirst ==
    \A r \in Reqs :
        ( req[r].op = "GetUserInfo" /\ Done(r) /\ req[r].ret = ErrNil )
        => /\ NewestFirst(req[r].rowsReceived)
           /\ NewestFirst(req[r].rowsSent)

\* GetUserInfo has returned a received list holding a transfer made by a
\* request and a transfer that was complete when that request was called
C16_Witness ==
    \E r, q \in Reqs :
        /\ req[r].op = "GetUserInfo" /\ Done(r) /\ req[r].ret = ErrNil
        /\ req[q].op = "SendCoin" /\ req[q].tx = "committed"
        /\ \E i, j \in DOMAIN req[r].rowsReceived :
              /\ req[r].rowsReceived[i] \in DOMAIN snap[q].coin_transactions
              /\ req[r].rowsReceived[j] \in RowsOf(q)

\* C17: the inventory table holds at most one row for each pair of account
\* and item, in every reachable state.
C17_OneEntryPerAccountItem ==
    \A a, b \in inventory :
        (a.user_id = b.user_id /\ a.item_type = b.item_type) => a = b

\* two purchases of the same item by the same account both found no
\* inventory row, both wrote, and the table holds the pair's row
C17_Witness ==
    \E r, q \in Reqs :
        /\ r # q
        /\ req[r].op = "BuyItem" /\ req[q].op = "BuyItem"
        /\ Done(r) /\ Done(q)
        /\ req[r].username = req[q].username /\ req[r].item = req[q].item
        /\ req[r].existingQuantity = -1 /\ req[q].existingQuantity = -1
        /\ req[r].nWrites = 2 /\ req[q].nWrites = 2
        /\ ~req[r].failed /\ ~req[q].failed
        /\ InventoryRows(req[r].user.id, req[r].item) # {}

\* C18: on the protected routes the wrapped handler has been invoked only
\* for a request whose Authorization header is present and carries a token
\* VerifyJWTToken accepts (one signed with the server's secret), and with
\* the verified username in the context, which is the username the use case
\* is called with; a request without the header or with a token that fails
\* verification has been answered 401 with an error body and neither the
\* handler nor a use case has been invoked for it.
C18_ProtectedRoutesNeedToken ==
    \A r \in Reqs :
        req[r].route \in ProtectedRoutes
        => LET h == req[r].authHeader
               v == VerifyJWTToken(TokenString(h)) IN
           /\ req[r].invoked
               => /\ h # NoHeader
                  /\ ~v.err
                  /\ h.token = SignedString(h.token.alg, h.token.claims, jwtSecret)
                  /\ req[r].ctxUsername = v.username
                  /\ <<"username", req[r].ctxUsername>> \in h.token.claims
           /\ (h = NoHeader \/ v.err)
               => /\ req[r].status = StatusUnauthorized
                  /\ req[r].body.kind = "error"
                  /\ ~req[r].invoked
                  /\ req[r].op = "none"
           /\ req[r].op # "none"
               => req[r].invoked /\ req[r].username = req[r].ctxUsername

\* one request with a token of the server has reached its use case under the
\* token's username and one with a token signed with another key has been
\* answered 401
C18_Witness ==
    \E r, q \in Reqs :
        /\ req[r].route \in ProtectedRoutes /\ req[r].invoked
        /\ req[r].op # "none" /\ req[r].username = "alice"
        /\ req[q].route \in ProtectedRoutes /\ ~req[q].invoked
        /\ req[q].authHeader.token
             = SignedString("HS256", {<<"username", "alice">>}, otherSecret)
        /\ req[q].status = StatusUnauthorized

\* the errors of SendCoin that handleSendCoin answers with 400
SendCoinBadRequestErrors ==
    {ErrInvalidAmount, ErrInsufficientFunds, ErrSelfTransfer,
     ErrReceiverNotFound, ErrUserNotFound}

\* C19: handleSendCoin has answered 200 exactly when SendCoin was called and
\* returned nil; it has answered 400 without calling SendCoin for a decoded
\* amount <= 0, 400 when SendCoin returned ErrInvalidAmount,
\* ErrInsufficientFunds, ErrSelfTransfer, ErrReceiverNotFound or
\* ErrUserNotFound, and 500 when SendCoin returned any other error; its
\* answer to every error value follows the same table.
C19_SendCoinStatus ==
    /\ \A r \in Reqs :
          ( req[r].route = RouteSendCoin /\ req[r].invoked /\ req[r].status # 0 )
          => /\ req[r].status = StatusOK
                  <=> (req[r].op = "SendCoin" /\ req[r].ret = ErrNil)
             /\ (req[r].decoded /\ req[r].amount <= 0)
                  => (req[r].status = StatusBadRequest /\ req[r].op = "none")
             /\ (req[r].op = "SendCoin" /\ req[r].ret \in SendCoinBadRequestErrors)
                  => req[r].status = StatusBadRequest
             /\ ( /\ req[r].op = "SendCoin"
                  /\ req[r].ret \notin SendCoinBadRequestErrors \cup {ErrNil} )
                  => req[r].status = StatusInternalServerError
    /\ \A e \in Errors :
          SendCoinResponse(e).status
            = IF e \in SendCoinBadRequestErrors THEN StatusBadRequest
              ELSE StatusInternalServerError

\* handleSendCoin has answered 200 to a transfer and 400 to a transfer whose
\* sender has no account
C19_Witness ==
    \E r, q \in Reqs :
        /\ req[r].route = RouteSendCoin /\ req[r].status = StatusOK
        /\ req[r].tx = "committed"
        /\ req[q].route = RouteSendCoin /\ req[q].status = StatusBadRequest
        /\ req[q].op = "SendCoin" /\ req[q].ret = ErrUserNotFound

\* the errors of BuyItem that handleBuyItem answers with 400
BuyItemBadRequestErrors ==
    {ErrItemNotFound, ErrItemRequired, ErrNotEnoughCoins, ErrUserNotFound}

\* C20: handleBuyItem has answered 200 exactly when BuyItem was called and
\* returned nil; it has answered 400 without calling BuyItem for an empty
\* item name in the path, 400 with the error's own message when BuyItem
\* returned ErrItemNotFound, ErrItemRequired, ErrNotEnoughCoins or
\* ErrUserNotFound, and 500 when BuyItem returned any other error; its
\* answer to every error value follows the same table.
C20_BuyItemStatus ==
    /\ \A r \in Reqs :
          ( req[r].route = RouteBuy /\ req[r].invoked /\ req[r].status # 0 )
          => /\ req[r].status = StatusOK
                  <=> (req[r].op = "BuyItem" /\ req[r].ret = ErrNil)
             /\ req[r].op = "none"
                  => /\ req[r].item = ""
                     /\ req[r].status = StatusBadRequest
                     /\ req[r].body = ErrorBody(MsgItemPathRequired)
             /\ (req[r].op = "BuyItem" /\ req[r].ret \in BuyItemBadRequestErrors)
                  => /\ req[r].status = StatusBadRequest
                     /\ req[r].body = ErrorBody(Error(req[r].ret))
                     /\ req[r].body.errors \notin {MsgBadRequest, MsgInternal}
             /\ ( /\ req[r].op = "BuyItem"
                  /\ req[r].ret \notin BuyItemBadRequestErrors \cup {ErrNil} )
                  => req[r].status = StatusInternalServerError
    /\ \A e \in Errors :
          /\ BuyItemResponse(e).status
               = IF e \in BuyItemBadRequestErrors THEN StatusBadRequest
                 ELSE StatusInternalServerError
          /\ e \in BuyItemBadRequestErrors
               => BuyItemResponse(e).body = ErrorBody(Error(e))

\* handleBuyItem has answered 200 to a purchase and 400 to the purchase of
\* an item the shop does not sell
C20_Witness ==
    \E r, q \in Reqs :
        /\ req[r].route = RouteBuy /\ req[r].status = StatusOK
        /\ req[r].tx = "committed"
        /\ req[q].route = RouteBuy /\ req[q].status = StatusBadRequest
        /\ req[q].op = "BuyItem" /\ req[q].ret = ErrItemNotFound
        /\ req[q].body = ErrorBody("not found: item not found")

\* C21: handleInfo has answered 200 with the JSON of the response exactly
\* when GetUserInfo returned nil (and then a response that is not nil), 404
\* with the error's own message when GetUserInfo returned ErrUserNotFound,
\* and 500 when it returned any other error; its answer to every error
\* value follows the same table.
C21_InfoStatus ==
    /\ \A r \in Reqs :
          ( req[r].route = RouteInfo /\ req[r].invoked /\ req[r].status # 0 )
          => /\ req[r].op = "GetUserInfo"
             /\ req[r].status = StatusOK <=> req[r].ret = ErrNil
             /\ req[r].ret = ErrNil
                  => (req[r].body = JSONBody /\ ~req[r].response.isNil)
             /\ req[r].ret = ErrUserNotFound
                  => /\ req[r].status = StatusNotFound
                     /\ req[r].body = ErrorBody(Error(ErrUserNotFound))
                     /\ req[r].body.errors # MsgInternal
             /\ req[r].ret \notin {ErrNil, ErrUserNotFound}
                  => req[r].status = StatusInternalServerError
    /\ \A e \in Errors :
          InfoResponse(e).status
            = IF e = ErrUserNotFound THEN StatusNotFound
              ELSE StatusInternalServerError

\* handleInfo has answered 200 for an account holder and 404 for a token
\* whose username has no account
C21_Witness ==
    \E r, q \in Reqs :
        /\ req[r].route = RouteInfo /\ req[r].status = StatusOK
        /\ req[r].response.coins > 0
        /\ req[q].route = RouteInfo /\ req[q].status = StatusNotFound
        /\ req[q].body = ErrorBody("not found: user not found")

\* C22: handleAuth has answered 200 with the JSON of the token exactly when
\* Auth was called and returned nil (and then a token VerifyJWTToken
\* accepts), 401 with the error's own message when Auth returned
\* ErrInvalidPassword, and 500 when Auth returned any other error; its
\* answer to every error value follows the same table.
C22_AuthStatus ==
    /\ \A r \in Reqs :
          ( req[r].route = RouteAuth /\ req[r].status # 0 )
          => /\ req[r].status = StatusOK
                  <=> (req[r].op = "Auth" /\ req[r].ret = ErrNil)
             /\ req[r].status = StatusOK
                  => /\ req[r].body = JSONBody
                     /\ VerifyJWTToken(req[r].token)
                          = [username |-> req[r].username, err |-> FALSE]
             /\ (req[r].op = "Auth" /\ req[r].ret = ErrInvalidPassword)
                  => /\ req[r].status = StatusUnauthorized
                     /\ req[r].body = ErrorBody(Error(ErrInvalidPassword))
             /\ (req[r].op = "Auth" /\ req[r].ret \notin {ErrNil, ErrInvalidPassword})
                  => req[r].status = StatusInternalServerError
    /\ \A e \in Errors :
          AuthResponse(e).status
            = IF e = ErrInvalidPassword THEN StatusUnauthorized
              ELSE StatusInternalServerError

\* handleAuth has answered 200 to a login and 401 to a login with a wrong
\* password
C22_Witness ==
    \E r, q \in Reqs :
        /\ req[r].route = RouteAuth /\ req[r].status = StatusOK
        /\ req[q].route = RouteAuth /\ req[q].status = StatusUnauthorized
        /\ req[q].body = ErrorBody("unauthorized: wrong password")

\* C23: for every username, the empty one included, VerifyJWTToken accepts
\* the token GenerateJWTToken makes for it and returns that username; so
\* does it for every token Auth has returned.
C23_TokenRoundTrip ==
    /\ \A u \in Usernames \cup {""} :
          VerifyJWTToken(GenerateJWTToken(u)) = [username |-> u, err |-> FALSE]
    /\ \A r \in Reqs :
          req[r].token # NoToken
          => VerifyJWTToken(req[r].token)
               = [username |-> req[r].username, err |-> FALSE]

\* a token Auth returned has come back in the Authorization header of a
\* later request, which was let through under the username Auth was called
\* with
C23_Witness ==
    \E r, q \in Reqs :
        /\ req[r].op = "Auth" /\ req[r].ret = ErrNil /\ req[r].token # NoToken
        /\ req[q].route \in ProtectedRoutes /\ req[q].invoked
        /\ req[q].authHeader.token = req[r].token
        /\ req[q].ctxUsername = req[r].username

\* the tables are those SendCoin(senderUsername, receiverUsername, amount)
\* makes of the tables S when it is issued alone: S itself when a check
\* rejects it, and otherwise S with the amount moved and one ledger row more
SendCoinFrom(S, senderUsername, receiverUsername, amount) ==
    LET s == FindUser(S.users, senderUsername)
        t == FindUser(S.users, receiverUsername)
        n == Len(S.coin_transactions)
    IN IF SendCoinExpected(S.users, senderUsername, receiverUsername, amount)
            # ErrNil
       THEN /\ users = S.users /\ inventory = S.inventory
            /\ coin_transactions = S.coin_transactions
       ELSE /\ users = WithCoins(WithCoins(S.users, s.username, s.coins - amount),
                                 t.username, t.coins + amount)
            /\ inventory = S.inventory
            /\ Len(coin_transactions) = n + 1
            /\ SubSeq(coin_transactions, 1, n) = S.coin_transactions
            /\ coin_transactions[n + 1].sender_user_id = s.id
            /\ coin_transactions[n + 1].receiver_user_id = t.id
            /\ coin_transactions[n + 1].amount = amount

\* the tables are those BuyItem(username, item) makes of the tables S when
\* it is issued alone
BuyItemFrom(S, username, item) ==
    LET u == FindUser(S.users, username)
        old == {row \in S.inventory : row.user_id = u.id /\ row.item_type = item}
        q == IF old = {} THEN 0 ELSE (CHOOSE row \in old : TRUE).quantity
    IN IF BuyItemExpected(S.users, username, item) # ErrNil
       THEN /\ users = S.users /\ inventory = S.inventory
            /\ coin_transactions = S.coin_transactions
       ELSE /\ users = WithCoins(S.users, u.username, u.coins - GetItemPrice(item))
            /\ Entries(inventory)
                 = (Entries(S.inventory) \ Entries(old))
                     \cup {[user_id |-> u.id, item_type |-> item, quantity |-> q + 1]}
            /\ Cardinality(inventory)
                 = Cardinality(S.inventory) + (IF old = {} THEN 1 ELSE 0)
            /\ coin_transactions = S.coin_transactions

\* request r is a SendCoin or BuyItem call that a check rejected
Rejected(r) ==
    /\ Done(r) /\ ~req[r].failed
    /\ \/ req[r].op = "SendCoin" /\ req[r].ret \in SendCoinValidationErrors
       \/ req[r].op = "BuyItem" /\ req[r].ret \in BuyItemValidationErrors

\* C24: when a rejected SendCoin or BuyItem request is followed by a
\* SendCoin or BuyItem request that runs without a store failure, no request
\* but these two writing, the second returns what it returns when issued
\* alone from the tables the rejected request was issued in, and leaves the
\* balances, the inventory and the ledger it leaves then.
C24_RejectedThenValid ==
    \A r1, r2 \in Reqs :
        ( /\ r1 < r2
          /\ Rejected(r1)
          /\ RanAlone(r2)
          /\ \A q \in Reqs \ {r1, r2} : req[q].nWrites = 0 )
        => /\ req[r2].op = "SendCoin"
               => /\ req[r2].ret = SendCoinExpected(snap[r1].users, req[r2].username,
                                                    req[r2].receiver, req[r2].amount)
                  /\ SendCoinFrom(snap[r1], req[r2].username, req[r2].receiver,
                                  req[r2].amount)
           /\ req[r2].op = "BuyItem"
               => /\ req[r2].ret = BuyItemExpected(snap[r1].users, req[r2].username,
                                                   req[r2].item)
                  /\ BuyItemFrom(snap[r1], req[r2].username, req[r2].item)

\* a transfer rejected for its receiver has been issued again by the same
\* sender with another receiver and has moved the coins
C24_Witness ==
    \E r1, r2 \in Reqs :
        /\ r1 < r2 /\ Rejected(r1) /\ RanAlone(r2)
        /\ req[r1].op = "SendCoin" /\ req[r2].op = "SendCoin"
        /\ req[r1].username = req[r2].username
        /\ req[r1].receiver # req[r2].receiver
        /\ req[r2].ret = ErrNil /\ req[r2].tx = "committed"

\* request r is a SendCoin or BuyItem call
Workflow(r) == req[r].op \in {"SendCoin", "BuyItem"}

\* C25: a SendCoin or BuyItem call that has looked an account up has begun
\* its transaction before, and a call whose transaction was rolled back, no
\* other request writing meanwhile, has left no balance changed: the
\* lookups, the balance check and all the writes are inside the one
\* transaction.
C25_WorkflowInsideTransaction ==
    \A r \in Reqs :
        Workflow(r)
        => /\ (req[r].senderUser # NilUser \/ req[r].user # NilUser)
                => req[r].nBegin > 0
           /\ (req[r].tx = "rolledback" /\ alone[r]) => users = snap[r].users

\* C26: a SendCoin or BuyItem call that has returned nil has committed its
\* transaction.
C26_NilOnlyIfCommitted ==
    \A r \in Reqs :
        (Workflow(r) /\ Done(r) /\ req[r].ret = ErrNil)
        => req[r].tx = "committed"

\* C27: a SendCoin or BuyItem call that began its transaction and has
\* returned an error, or was left by a panic, has rolled that transaction
\* back: the transaction is not open, holds no pending statement and has
\* added no ledger row and changed no inventory row.
C27_FailureRollsBack ==
    \A r \in Reqs :
        (Workflow(r) /\ Done(r) /\ req[r].tx # "none" /\ req[r].ret # ErrNil)
        => /\ req[r].tx = "rolledback"
           /\ req[r].txLedger = <<>> /\ req[r].txInv = {}
           /\ alone[r]
               => /\ coin_transactions = snap[r].coin_transactions
                  /\ inventory = snap[r].inventory

\* a panic has left a call after its debit and credit were issued
C27_Witness ==
    \E r \in Reqs :
        /\ Workflow(r) /\ Done(r) /\ req[r].ret = ErrPanic
        /\ req[r].nWrites >= 2
        /\ req[r].tx = "rolledback"

\* the sum of the amounts of the ledger rows at positions ks
RECURSIVE SumAmount(_)
SumAmount(ks) ==
    IF ks = {} THEN 0
    ELSE LET k == CHOOSE x \in ks : TRUE
         IN coin_transactions[k].amount + SumAmount(ks \ {k})

\* the sum over inventory rows of quantity times catalog price
RECURSIVE InventoryCost(_)
InventoryCost(rows) ==
    IF rows = {} THEN 0
    ELSE LET row == CHOOSE x \in rows : TRUE
         IN row.quantity * GetItemPrice(row.item_type)
            + InventoryCost(rows \ {row})

\* what ledger and inventory say the balance of account userID is
AccountedCoins(userID) ==
    InitialCoins + SumAmount(ReceivedRows(userID)) - SumAmount(SentRows(userID))
    - InventoryCost({row \in inventory : row.user_id = userID})

\* C28: in every state where no call is in flight, each account's balance is
\* 1000 plus the ledger amounts it received, minus the ledger amounts it
\* sent, minus quantity times price over its inventory rows, also after
\* calls that failed while executing.
C28_BalancesAccountedFor ==
    (\A q \in Reqs : ~InFlight(q))
    => \A i \in DOMAIN users : users[i].coins = AccountedCoins(users[i].id)

\* call a is an Auth call that registered its username: the username was
\* unknown when it was called and the call returned a token
Registers(a) ==
    /\ req[a].op = "Auth" /\ Done(a) /\ req[a].ret = ErrNil
    /\ FindUser(snap[a].users, req[a].username) = NilUser

\* the sum of the amounts of the SendCoin calls rs
RECURSIVE SumSent(_)
SumSent(rs) ==
    IF rs = {} THEN 0
    ELSE LET r == CHOOSE x \in rs : TRUE
         IN req[r].amount + SumSent(rs \ {r})

\* the SendCoin calls from sender to receiver that returned success
TransfersDone(sender, receiver) ==
    {s \in Reqs : /\ req[s].op = "SendCoin" /\ req[s].ret = ErrNil
                  /\ req[s].username = sender /\ req[s].receiver = receiver}

\* C29: once an Auth call that registered a new username and the SendCoin
\* calls naming that username as receiver have all returned, none of them
\* having met a store failure, the new account holds 1000 plus the amounts
\* of the transfers that returned success, and each sender holds what it
\* held before the calls minus the amounts it sent with success.
C29_RegistrationAndTransfers ==
    \A a \in Reqs :
        ( /\ Registers(a)
          /\ failures = 0
          /\ \A s \in Reqs \ {a} :
                /\ req[s].op = "SendCoin" /\ Done(s)
                /\ req[s].receiver = req[a].username )
        => /\ FindUser(users, req[a].username).coins
                = InitialCoins
                  + SumSent(UNION {TransfersDone(v, req[a].username) :
                                     v \in Usernames})
           /\ \A v \in Usernames \ {req[a].username} :
                 FindUser(snap[1].users, v) # NilUser
                 => FindUser(users, v).coins
                      = FindUser(snap[1].users, v).coins
                        - SumSent(TransfersDone(v, req[a].username))

\* the rows of the users table with this username
Accounts(username) == {i \in DOMAIN users : users[i].username = username}

\* C30: once concurrent Auth calls for one username that was unknown when
\* each of them was called have all returned, none of them having met a
\* store failure, there is exactly one account with that username, it holds
\* the grant of 1000, and every call that supplied the password of that
\* account has returned a token for the username.
C30_ConcurrentRegistration ==
    \A u \in Usernames :
        ( /\ failures = 0
          /\ \A a \in Reqs :
                /\ req[a].op = "Auth" /\ Done(a) /\ req[a].username = u
                /\ FindUser(snap[a].users, u) = NilUser )
        => /\ Cardinality(Accounts(u)) = 1
           /\ FindUser(users, u).coins = InitialCoins
           /\ \A a \in Reqs :
                 CompareHashAndPassword(FindUser(users, u).password_hash,
                                        req[a].password)
                 => /\ req[a].ret = ErrNil
                    /\ VerifyJWTToken(req[a].token)
                         = [username |-> u, err |-> FALSE]

\* C31: an account left by an Auth call that has returned, alone on the
\* tables since it was called, for a username unknown at the call, holds the
\* starting grant, also when a store step of that call failed.
C31_RegistrationGrantsOrNothing ==
    \A a \in Reqs :
        ( /\ req[a].op = "Auth" /\ Done(a) /\ alone[a]
          /\ FindUser(snap[a].users, req[a].username) = NilUser
          /\ FindUser(users, req[a].username) # NilUser )
        => FindUser(users, req[a].username).coins = InitialCoins

\* C32: a transaction begun by SendCoin or BuyItem is open only while the
\* call is in flight, is finished at most once, and once the call has left
\* (by return or by panic) it has been finished exactly once: committed when
\* every step up to and including Commit succeeded, rolled back otherwise.
C32_FinalisedExactlyOnce ==
    \A r \in Reqs :
        Workflow(r)
        => /\ req[r].nFinal <= 1
           /\ req[r].tx = "open" => (InFlight(r) /\ req[r].nFinal = 0)
           /\ (Done(r) /\ req[r].tx # "none")
               => /\ req[r].nFinal = 1
                  /\ req[r].tx \in {"committed", "rolledback"}
                  /\ req[r].tx = "committed"
                       <=> (~req[r].failed /\ req[r].ret = ErrNil)

\* one call has committed its transaction and another has had its
\* transaction rolled back by a cancellation, a panic or a failed statement
C32_Witness ==
    /\ \E r \in Reqs : Workflow(r) /\ Done(r) /\ req[r].tx = "committed"
    /\ \E r \in Reqs :
          /\ Workflow(r) /\ Done(r) /\ req[r].tx = "rolledback"
          /\ req[r].nFinal = 1 /\ req[r].failed
          /\ req[r].ret \in {ErrCanceled, ErrPanic, ErrStore}

\* C33: a SendCoin or BuyItem call whose context was cancelled while its
\* transaction was open has rolled the transaction back and returned an
\* error, and, when no other call wrote since it was called, balances,
\* ledger and inventory are what they were at its call.
C33_CancellationLeavesNothing ==
    \A r \in Reqs :
        (Workflow(r) /\ Done(r) /\ req[r].cancelled)
        => /\ req[r].tx = "rolledback"
           /\ req[r].ret # ErrNil
           /\ alone[r] => /\ users = snap[r].users
                          /\ coin_transactions = snap[r].coin_transactions
                          /\ inventory = snap[r].inventory

\* C34: a request whose use case returned an error because a store step
\* failed is answered with 500.
C34_StoreFailureIsInternal ==
    \A r \in Reqs :
        (req[r].status # 0 /\ req[r].failed /\ req[r].ret # ErrNil)
        => req[r].status = StatusInternalServerError

\* the kinds of the taxonomy and the typed errors of the workflows
Kinds == {ErrInvalidRequest, ErrNotFound, ErrUnauthorized}
TypedErrors ==
    {ErrInvalidAmount, ErrSelfTransfer, ErrInsufficientFunds, ErrItemRequired,
     ErrNotEnoughCoins, ErrUserNotFound, ErrReceiverNotFound, ErrItemNotFound,
     ErrInvalidPassword}

\* the kind the taxonomy gives a typed error
TaxonomyKind(err) ==
    IF err \in {ErrUserNotFound, ErrReceiverNotFound, ErrItemNotFound}
    THEN ErrNotFound
    ELSE IF err = ErrInvalidPassword THEN ErrUnauthorized
    ELSE ErrInvalidRequest

\* C35: the typed error a call has returned classifies, by errors.Is, under
\* the kind the taxonomy gives it and under no other kind.
C35_TaxonomyKinds ==
    \A r \in Reqs :
        (Done(r) /\ req[r].ret \in TypedErrors)
        => \A k \in Kinds : Is(req[r].ret, k) <=> k = TaxonomyKind(req[r].ret)

\* C36: every 500 response has the one fixed generic body, so any two 500
\* responses are identical whatever error the use case returned, and a 400,
\* 401 or 404 response to a typed error carries that error's own message.
C36_GenericInternalBody ==
    /\ \A r \in Reqs :
          /\ req[r].status = StatusInternalServerError
               => req[r].body = ErrorBody(MsgInternal)
          /\ ( /\ req[r].status \in {StatusBadRequest, StatusUnauthorized,
                                     StatusNotFound}
               /\ req[r].ret \in TypedErrors )
               => /\ req[r].body = ErrorBody(Error(req[r].ret))
                  /\ req[r].body # ErrorBody(MsgInternal)
    /\ \A r1, r2 \in Reqs :
          ( /\ req[r1].status = StatusInternalServerError
            /\ req[r2].status = StatusInternalServerError )
          => req[r1].body = req[r2].body

\* a request that met a cancelled context has been answered 500 and another
\* that returned a typed error has been answered with that error's message
C36_Witness ==
    /\ \E r \in Reqs :
          /\ req[r].ret = ErrCanceled
          /\ req[r].status = StatusInternalServerError
    /\ \E r \in Reqs :
          /\ req[r].ret \in TypedErrors
          /\ req[r].status \in {StatusBadRequest, StatusUnauthorized,
                                StatusNotFound}

\* the most store writes one call issues: two balance updates and the ledger
\* insert, or one balance update and the inventory statement
MaxWrites(op) == IF op = "SendCoin" THEN 3 ELSE 2

Committed(rq) ==
    {r \in Reqs : rq[r].op = "SendCoin" /\ rq[r].tx = "committed"}

\* the entries of a ledger are well formed over a users table: a positive
\* amount between two different accounts that exist
WellFormed(ledger, us) ==
    \A k \in DOMAIN ledger :
        /\ ledger[k].amount > 0
        /\ ledger[k].sender_user_id # ledger[k].receiver_user_id
        /\ \E i \in DOMAIN us : us[i].id = ledger[k].sender_user_id
        /\ \E i \in DOMAIN us : us[i].id = ledger[k].receiver_user_id

\* C38: in every step the ledger keeps every entry it had, unchanged and in
\* place, and gets one new entry exactly when the step commits the
\* transaction of a SendCoin call, that entry being the transfer of the
\* call; a step of Auth, BuyItem or GetUserInfo leaves the ledger as it is;
\* and every entry has a positive amount and two different existing accounts.
C38_LedgerAppendOnly ==
    [][/\ Len(coin_transactions') >= Len(coin_transactions)
       /\ SubSeq(coin_transactions', 1, Len(coin_transactions))
            = coin_transactions
       /\ Len(coin_transactions') - Len(coin_transactions)
            = Cardinality(Committed(req') \ Committed(req))
       /\ \A r \in Committed(req') \ Committed(req) :
            LET row == coin_transactions'[Len(coin_transactions')] IN
            /\ row.amount = req[r].amount
            /\ row.sender_user_id = req[r].senderUser.id
            /\ row.receiver_user_id = req[r].receiverUser.id
       /\ WellFormed(coin_transactions, users)
       /\ WellFormed(coin_transactions', users')]_vars

\* the ledger holds the entry of an earlier transfer and, after it, the
\* entry of a SendCoin call that committed, while a BuyItem call committed
\* too
C38_Witness ==
    /\ Len(coin_transactions) = 2
    /\ coin_transactions[1] = TransferredLedger[1]
    /\ \E r \in Reqs : req[r].op = "SendCoin" /\ req[r].tx = "committed"
    /\ \E r \in Reqs : req[r].op = "BuyItem" /\ req[r].tx = "committed"

\* C39: under fair scheduling every SendCoin and BuyItem call in flight
\* eventually returns (or is left by a panic).
C39_WorkflowsReturn ==
    \A r \in Reqs : (Workflow(r) /\ InFlight(r)) ~> Done(r)

\* two transfers in opposite directions between the same two accounts, each
\* writing while the other was in flight, have both committed
C39_Witness ==
    /\ \A r \in Reqs :
          /\ req[r].op = "SendCoin" /\ Done(r)
          /\ req[r].tx = "committed" /\ ~alone[r]
    /\ req[1].username = req[2].receiver
    /\ req[2].username = req[1].receiver

====
